---- MODULE Spec2Model ----
(***************************************************************************)
(* A model of rlox1, a tree-walking Lox interpreter: the scanner           *)
(* (src/src/scanner.rs), the parser (src/src/parser.rs), the evaluator and *)
(* its environment (src/src/interpreter.rs) and the driver (src/src/lib.rs)*)
(*                                                                         *)
(* A source text is a sequence of characters; a character is a string.     *)
(* Every character is one byte wide in UTF-8 except NonAscii, which stands *)
(* for a two-byte character such as U+00E9.  Rust's String::len and the    *)
(* slice &s[a..b] count bytes, chars().nth(i) counts characters; the model *)
(* keeps the two apart.                                                    *)
(***************************************************************************)
EXTENDS Integers, Sequences, FiniteSets, TLC

VARIABLES
    stdin,              \* the lines the prompt has still to read
    source,             \* Scanner.source
    tokens,             \* Scanner.tokens
    start,              \* Scanner.start
    current,            \* Scanner.current
    line,               \* Scanner.line
    had_error,          \* Lox.had_error
    had_runtime_error,  \* Lox.had_runtime_error
    out,                \* what the process wrote to stdout, line by line
    statements,         \* the Vec<Stmt> returned by Parser::parse
    values,             \* Environment.values, a stack of scopes
    kont,               \* the statements the evaluator still has to execute
    pc,                 \* where the driver is
    exit_code,          \* the exit status of the process, -1 while it runs
    last                \* the last operation and its result

vars == <<stdin, source, tokens, start, current, line, had_error, had_runtime_error,
          out, statements, values, kont, pc, exit_code, last>>

\* ---------------------------------------------------------------- bounds
MaxLen == 4
MaxDepth == 3

\* ------------------------------------------------------------ characters
NonAscii == "U+00E9"
NUL == "NUL"
NoChar == "None"

Digits == {"0", "1", "2", "3", "4", "5", "6", "7", "8", "9"}

Lower == {"a", "b", "c", "d", "e", "f", "g", "h", "i", "j", "k", "l", "m",
          "n", "o", "p", "q", "r", "s", "t", "u", "v", "w", "x", "y", "z"}

Upper == {"A", "B", "C", "D", "E", "F", "G", "H", "I", "J", "K", "L", "M",
          "N", "O", "P", "Q", "R", "S", "T", "U", "V", "W", "X", "Y", "Z"}

Width(c) == IF c = NonAscii THEN 2 ELSE 1

RECURSIVE SourceLen(_)
SourceLen(src) ==
    IF src = <<>> THEN 0 ELSE Width(Head(src)) + SourceLen(Tail(src))

NthChar(src, i) == IF i >= 0 /\ i < Len(src) THEN src[i + 1] ELSE NoChar

\* the byte offset at which the character of index i (from 0) starts
RECURSIVE ByteOffset(_, _)
ByteOffset(src, i) ==
    IF i = 0 THEN 0 ELSE ByteOffset(src, i - 1) + Width(src[i])

IsCharBoundary(src, b) == \E i \in 0..Len(src) : ByteOffset(src, i) = b

CharIndex(src, b) == CHOOSE i \in 0..Len(src) : ByteOffset(src, i) = b

SliceOk(src, a, b) ==
    /\ a <= b
    /\ b <= SourceLen(src)
    /\ IsCharBoundary(src, a)
    /\ IsCharBoundary(src, b)

Slice(src, a, b) == SubSeq(src, CharIndex(src, a) + 1, CharIndex(src, b))

is_digit(c) == c \in Digits

is_alpha(c) == c \in Lower \/ c \in Upper \/ c = "_"

is_alpha_numeric(c) == is_alpha(c) \/ is_digit(c)

\* --------------------------------------------------------------- scanner
Token(token_type, lexeme, ln) ==
    [token_type |-> token_type, lexeme |-> lexeme, line |-> ln]

TT(k) == [k |-> k]

NewScanner(src) ==
    [tokens |-> <<>>, start |-> 0, current |-> 0, line |-> 1,
     had_error |-> FALSE, out |-> <<>>, panic |-> FALSE, ch |-> NoChar]

is_at_end(src, sc) == sc.current >= SourceLen(src)

\* advance: the character is left in .ch; unwrap() of None panics
advance(src, sc) ==
    LET c == NthChar(src, sc.current)
    IN  [sc EXCEPT !.current = @ + 1, !.ch = c, !.panic = @ \/ c = NoChar]

peek(src, sc) ==
    IF is_at_end(src, sc) THEN NUL ELSE NthChar(src, sc.current)

peek_next(src, sc) ==
    IF sc.current + 1 >= SourceLen(src) THEN NUL
    ELSE NthChar(src, sc.current + 1)

\* match_next: .ch is "t" when the character matched, "f" when it did not
match_next(src, sc, expected) ==
    IF is_at_end(src, sc) THEN [sc EXCEPT !.ch = "f"]
    ELSE IF NthChar(src, sc.current) = NoChar THEN [sc EXCEPT !.panic = TRUE]
    ELSE IF NthChar(src, sc.current) # expected THEN [sc EXCEPT !.ch = "f"]
    ELSE [sc EXCEPT !.current = @ + 1, !.ch = "t"]

add_token(src, sc, token_type) ==
    IF ~SliceOk(src, sc.start, sc.current) THEN [sc EXCEPT !.panic = TRUE]
    ELSE [sc EXCEPT !.tokens =
            Append(@, Token(token_type, Slice(src, sc.start, sc.current), sc.line))]

report(sc, ln, location, message) ==
    [sc EXCEPT !.out = Append(@, [k |-> "report", line |-> ln,
                                  location |-> location, message |-> message]),
               !.had_error = TRUE]

RECURSIVE string_loop(_, _)
string_loop(src, sc) ==
    IF sc.panic THEN sc
    ELSE IF peek(src, sc) = NoChar THEN [sc EXCEPT !.panic = TRUE]
    ELSE IF peek(src, sc) # "\"" /\ ~is_at_end(src, sc)
         THEN string_loop(src,
                advance(src, IF peek(src, sc) = "\n"
                             THEN [sc EXCEPT !.line = @ + 1] ELSE sc))
    ELSE sc

string(src, sc0) ==
    LET sc == string_loop(src, sc0)
    IN  IF sc.panic THEN sc
        ELSE IF is_at_end(src, sc)
             THEN [sc EXCEPT !.out = Append(@, [k |-> "println", line |-> sc.line,
                                                message |-> "Unterminated string."])]
        ELSE LET a == advance(src, sc)
             IN  IF a.panic THEN a
                 ELSE IF ~SliceOk(src, a.start + 1, a.current - 1)
                      THEN [a EXCEPT !.panic = TRUE]
                 ELSE add_token(src, a,
                        [k |-> "String", s |-> Slice(src, a.start + 1, a.current - 1)])

RECURSIVE digits_loop(_, _)
digits_loop(src, sc) ==
    IF sc.panic THEN sc
    ELSE IF peek(src, sc) = NoChar THEN [sc EXCEPT !.panic = TRUE]
    ELSE IF is_digit(peek(src, sc)) THEN digits_loop(src, advance(src, sc))
    ELSE sc

DigitValue(c) ==
    CASE c = "0" -> 0 [] c = "1" -> 1 [] c = "2" -> 2 [] c = "3" -> 3
      [] c = "4" -> 4 [] c = "5" -> 5 [] c = "6" -> 6 [] c = "7" -> 7
      [] c = "8" -> 8 [] c = "9" -> 9

RECURSIVE Gcd(_, _)
Gcd(a, b) == IF b = 0 THEN a ELSE Gcd(b, a % b)

Abs(a) == IF a < 0 THEN -a ELSE a

\* an f64 as a reduced fraction; d = 0 stands for inf (n = 1), -inf (n = -1)
\* and NaN (n = 0)
Num(n, d) ==
    IF d = 0 THEN [t |-> "Number", n |-> IF n > 0 THEN 1 ELSE IF n < 0 THEN -1 ELSE 0, d |-> 0]
    ELSE LET g == Gcd(Abs(n), Abs(d))
             s == IF d < 0 THEN -1 ELSE 1
         IN  [t |-> "Number", n |-> (s * n) \div g, d |-> (s * d) \div g]

\* str::parse::<f64> of digits with an optional fraction
RECURSIVE ParseNumber(_, _, _, _)
ParseNumber(lexeme, n, d, frac) ==
    IF lexeme = <<>> THEN Num(n, d)
    ELSE IF Head(lexeme) = "." THEN ParseNumber(Tail(lexeme), n, d, TRUE)
    ELSE ParseNumber(Tail(lexeme), 10 * n + DigitValue(Head(lexeme)),
                     IF frac THEN 10 * d ELSE d, frac)

number(src, sc0) ==
    LET sc == digits_loop(src, sc0)
    IN  IF sc.panic THEN sc
        ELSE LET fr == IF peek(src, sc) = "." /\ is_digit(peek_next(src, sc))
                       THEN digits_loop(src, advance(src, sc)) ELSE sc
             IN  IF fr.panic \/ (peek(src, sc) = "." /\ peek_next(src, sc) = NoChar)
                 THEN [fr EXCEPT !.panic = TRUE]
                 ELSE IF ~SliceOk(src, fr.start, fr.current) THEN [fr EXCEPT !.panic = TRUE]
                 ELSE add_token(src, fr,
                        [k |-> "Number",
                         v |-> ParseNumber(Slice(src, fr.start, fr.current), 0, 1, FALSE)])

RECURSIVE identifier_loop(_, _)
identifier_loop(src, sc) ==
    IF sc.panic THEN sc
    ELSE IF peek(src, sc) = NoChar THEN [sc EXCEPT !.panic = TRUE]
    ELSE IF is_alpha_numeric(peek(src, sc)) THEN identifier_loop(src, advance(src, sc))
    ELSE sc

Keyword(text) ==
    CASE text = <<"a", "n", "d">> -> "And"
      [] text = <<"c", "l", "a", "s", "s">> -> "Class"
      [] text = <<"e", "l", "s", "e">> -> "Else"
      [] text = <<"f", "a", "l", "s", "e">> -> "False"
      [] text = <<"f", "o", "r">> -> "For"
      [] text = <<"f", "u", "n">> -> "Fun"
      [] text = <<"i", "f">> -> "If"
      [] text = <<"n", "i", "l">> -> "Nil"
      [] text = <<"o", "r">> -> "Or"
      [] text = <<"p", "r", "i", "n", "t">> -> "Print"
      [] text = <<"r", "e", "t", "u", "r", "n">> -> "Return"
      [] text = <<"s", "u", "p", "e", "r">> -> "Super"
      [] text = <<"t", "h", "i", "s">> -> "This"
      [] text = <<"t", "r", "u", "e">> -> "True"
      [] text = <<"v", "a", "r">> -> "Var"
      [] text = <<"w", "h", "i", "l", "e">> -> "While"
      [] OTHER -> "Identifier"

identifier(src, sc0) ==
    LET sc == identifier_loop(src, sc0)
    IN  IF sc.panic THEN sc
        ELSE IF ~SliceOk(src, sc.start, sc.current) THEN [sc EXCEPT !.panic = TRUE]
        ELSE add_token(src, sc, TT(Keyword(Slice(src, sc.start, sc.current))))

\* "//": a comment goes until the end of the line
RECURSIVE line_comment(_, _)
line_comment(src, sc) ==
    IF sc.panic THEN sc
    ELSE IF is_at_end(src, sc) THEN sc
    ELSE IF peek(src, sc) = NoChar THEN [sc EXCEPT !.panic = TRUE]
    ELSE IF peek(src, sc) # "\n" THEN line_comment(src, advance(src, sc))
    ELSE sc

\* "/*": while !is_at_end() && (advance() != '*' || peek_next() != '/') { advance(); }
RECURSIVE block_comment_loop(_, _)
block_comment_loop(src, sc) ==
    IF sc.panic THEN sc
    ELSE IF is_at_end(src, sc) THEN sc
    ELSE LET a == advance(src, sc)
         IN  IF a.panic THEN a
             ELSE IF a.ch # "*" THEN block_comment_loop(src, advance(src, a))
             ELSE IF peek_next(src, a) = NoChar THEN [a EXCEPT !.panic = TRUE]
             ELSE IF peek_next(src, a) # "/" THEN block_comment_loop(src, advance(src, a))
             ELSE a

block_comment(src, sc0) ==
    LET sc == block_comment_loop(src, sc0)
    IN  IF sc.panic THEN sc ELSE advance(src, advance(src, sc))

one_or_two(src, sc, two, one) ==
    LET m == match_next(src, sc, "=")
    IN  IF m.panic THEN m
        ELSE add_token(src, m, TT(IF m.ch = "t" THEN two ELSE one))

slash(src, sc) ==
    LET m1 == match_next(src, sc, "/")
    IN  IF m1.panic THEN m1
        ELSE IF m1.ch = "t" THEN line_comment(src, m1)
        ELSE LET m2 == match_next(src, m1, "*")
             IN  IF m2.panic THEN m2
                 ELSE IF m2.ch = "t" THEN block_comment(src, m2)
                 ELSE add_token(src, m2, TT("Slash"))

scan_token(src, sc) ==
    LET a == advance(src, sc)
        c == a.ch
    IN  IF a.panic THEN a
        ELSE CASE c = "(" -> add_token(src, a, TT("LeftParen"))
               [] c = ")" -> add_token(src, a, TT("RightParen"))
               [] c = "{" -> add_token(src, a, TT("LeftBrace"))
               [] c = "}" -> add_token(src, a, TT("RightBrace"))
               [] c = "," -> add_token(src, a, TT("Comma"))
               [] c = "." -> add_token(src, a, TT("Dot"))
               [] c = "-" -> add_token(src, a, TT("Minus"))
               [] c = "+" -> add_token(src, a, TT("Plus"))
               [] c = ";" -> add_token(src, a, TT("Semicolon"))
               [] c = "*" -> add_token(src, a, TT("Star"))
               [] c = "!" -> one_or_two(src, a, "BangEqual", "Bang")
               [] c = "=" -> one_or_two(src, a, "EqualEqual", "Equal")
               [] c = "<" -> one_or_two(src, a, "LessEqual", "Less")
               [] c = ">" -> one_or_two(src, a, "GreaterEqual", "Greater")
               [] c = "/" -> slash(src, a)
               [] c \in {" ", "\r", "\t"} -> a
               [] c = "\n" -> [a EXCEPT !.line = @ + 1]
               [] c = "\"" -> string(src, a)
               [] is_digit(c) -> number(src, a)
               [] is_alpha(c) -> identifier(src, a)
               [] OTHER -> report(a, a.line, <<>>, [m |-> "Unexpected character", c |-> c])

\* ----------------------------------------------------------- environment
\* a scope is a function from the names it holds to their values
EmptyScope == [n \in {} |-> 0]

Insert(scope, name, value) ==
    [n \in DOMAIN scope \cup {name} |-> IF n = name THEN value ELSE scope[n]]

\* a message is its text, m, and the values formatted into it
RuntimeError(token, message) == [token |-> token, message |-> message]

Undefined(name) == [m |-> "Undefined variable", name |-> name.lexeme]

push(vals) == Append(vals, EmptyScope)

pop(vals) == IF vals = <<>> THEN vals ELSE SubSeq(vals, 1, Len(vals) - 1)

NewEnvironment == push(<<>>)

define(vals, name, value) ==
    [vals EXCEPT ![Len(vals)] = Insert(@, name, value)]

\* the scopes that hold the name, innermost last
Holders(vals, lexeme) == {i \in 1..Len(vals) : lexeme \in DOMAIN vals[i]}

Innermost(S) == CHOOSE i \in S : \A j \in S : j <= i

get(vals, name) ==
    LET H == Holders(vals, name.lexeme)
    IN  IF H # {} THEN [ok |-> TRUE, v |-> vals[Innermost(H)][name.lexeme]]
        ELSE [ok |-> FALSE, err |-> RuntimeError(name, Undefined(name))]

\* assign without .rev(): the outermost scope that holds the name is written
assign_outermost(vals, name, value) ==
    LET H == Holders(vals, name.lexeme)
    IN  IF H # {}
        THEN [ok |-> TRUE,
              env |-> [vals EXCEPT ![CHOOSE i \in H : \A j \in H : i <= j] =
                                      Insert(@, name.lexeme, value)]]
        ELSE [ok |-> FALSE, env |-> vals, err |-> RuntimeError(name, Undefined(name))]

\* assign that binds a name it did not find before it fails
assign_creating(vals, name, value) ==
    LET H == Holders(vals, name.lexeme)
    IN  IF H # {}
        THEN [ok |-> TRUE,
              env |-> [vals EXCEPT ![Innermost(H)] = Insert(@, name.lexeme, value)]]
        ELSE [ok |-> FALSE, env |-> define(vals, name.lexeme, value),
              err |-> RuntimeError(name, Undefined(name))]

assign(vals, name, value) ==
    LET H == Holders(vals, name.lexeme)
    IN  IF H # {}
        THEN [ok |-> TRUE,
              env |-> [vals EXCEPT ![Innermost(H)] = Insert(@, name.lexeme, value)]]
        ELSE [ok |-> FALSE, env |-> vals, err |-> RuntimeError(name, Undefined(name))]

\* ---------------------------------------------------------------- values
Nil == [t |-> "Nil"]
Bool(b) == [t |-> "Bool", b |-> b]
Str(s) == [t |-> "String", s |-> s]
Callable(f) == [t |-> "Callable", f |-> f]

IsNaN(a) == a.d = 0 /\ a.n = 0

NumNeg(a) == [a EXCEPT !.n = -a.n]

NumAdd(a, b) ==
    IF a.d = 0 /\ b.d = 0 THEN (IF a.n = b.n THEN a ELSE Num(0, 0))
    ELSE IF a.d = 0 THEN a
    ELSE IF b.d = 0 THEN b
    ELSE Num(a.n * b.d + b.n * a.d, a.d * b.d)

NumSub(a, b) == NumAdd(a, NumNeg(b))

NumMul(a, b) == Num(a.n * b.n, a.d * b.d)

NumRecip(b) == IF b.n < 0 THEN Num(-b.d, -b.n) ELSE Num(b.d, b.n)

NumDiv(a, b) == NumMul(a, NumRecip(b))

NumLess(a, b) ==
    /\ ~IsNaN(a)
    /\ ~IsNaN(b)
    /\ IF a.d = 0 /\ b.d = 0 THEN a.n < b.n
       ELSE IF a.d = 0 THEN a.n < 0
       ELSE IF b.d = 0 THEN b.n > 0
       ELSE a.n * b.d < b.n * a.d

NumEq(a, b) == ~IsNaN(a) /\ ~IsNaN(b) /\ a.n = b.n /\ a.d = b.d

\* impl PartialEq for Literal
is_equal(l, r) ==
    CASE l.t = "String" /\ r.t = "String" -> l.s = r.s
      [] l.t = "Number" /\ r.t = "Number" -> NumEq(l, r)
      [] l.t = "Bool" /\ r.t = "Bool" -> l.b = r.b
      [] l.t = "Nil" /\ r.t = "Nil" -> TRUE
      [] OTHER -> FALSE

is_truthy(literal) ==
    CASE literal.t = "Bool" -> literal.b
      [] literal.t = "Nil" -> FALSE
      [] OTHER -> TRUE

Ok(v, env) == [ok |-> TRUE, v |-> v, env |-> env]

Err(token, message, env) ==
    [ok |-> FALSE, err |-> RuntimeError(token, message), env |-> env]

cast_to_float(literal, operator, env) ==
    IF literal.t = "Number" THEN Ok(literal, env)
    ELSE Err(operator, [m |-> "Operand must be a numbers"], env)

\* the operators of visit_binary that take two numbers
Numeric(k, l, r) ==
    CASE k = "Minus" -> NumSub(l, r)
      [] k = "Slash" -> NumDiv(l, r)
      [] k = "Star" -> NumMul(l, r)
      [] k = "Plus" -> NumAdd(l, r)
      [] k = "Greater" -> Bool(NumLess(r, l))
      [] k = "GreaterEqual" -> Bool(NumLess(r, l) \/ NumEq(l, r))
      [] k = "Less" -> Bool(NumLess(l, r))
      [] k = "LessEqual" -> Bool(NumLess(l, r) \/ NumEq(l, r))

\* both operands cast, the left one first
Arith(l, r, operator, env) ==
    LET a == cast_to_float(l, operator, env)
        b == cast_to_float(r, operator, env)
    IN  IF ~a.ok THEN a ELSE IF ~b.ok THEN b
        ELSE Ok(Numeric(operator.token_type.k, l, r), env)

Arity(f) == 0

\* Clock::call: the reading of the wall clock is an input
Call(f, arguments, clk, env) == Ok(clk, env)

RECURSIVE evaluate(_, _, _)
RECURSIVE evaluate_arguments(_, _, _, _)

visit_binary(binary, env0, clk) ==
    LET lr == evaluate(binary.left, env0, clk)
    IN  IF ~lr.ok THEN lr
        ELSE LET rr == evaluate(binary.right, lr.env, clk)
             IN  IF ~rr.ok THEN rr
                 ELSE LET l == lr.v
                          r == rr.v
                          op == binary.operator
                          k == op.token_type.k
                          env == rr.env
                      IN  CASE k = "Plus" /\ l.t = "String" /\ r.t = "String" ->
                                 Ok(Str(l.s \o r.s), env)
                            [] k = "BangEqual" -> Ok(Bool(~is_equal(l, r)), env)
                            [] k = "EqualEqual" -> Ok(Bool(is_equal(l, r)), env)
                            [] OTHER -> Arith(l, r, op, env)

visit_call(expr, env0, clk) ==
    LET cr == evaluate(expr.callee, env0, clk)
    IN  IF ~cr.ok THEN cr
        ELSE LET ar == evaluate_arguments(expr.arguments, <<>>, cr.env, clk)
             IN  IF ~ar.ok THEN ar
                 ELSE IF cr.v.t = "Callable"
                      THEN IF Len(ar.v) # Arity(cr.v.f)
                           THEN Err(expr.paren,
                                    [m |-> "Expected {} arguments but got {}.",
                                     arity |-> Arity(cr.v.f),
                                     got |-> Len(ar.v)], ar.env)
                           ELSE Call(cr.v.f, ar.v, clk, ar.env)
                      ELSE Err(expr.paren, [m |-> "Can only call functions and classes."],
                               ar.env)

visit_unary(unary, env0, clk) ==
    LET rr == evaluate(unary.right, env0, clk)
    IN  IF ~rr.ok THEN rr
        ELSE IF unary.operator.token_type.k = "Minus"
             THEN LET c == cast_to_float(rr.v, unary.operator, rr.env)
                  IN  IF ~c.ok THEN c ELSE Ok(NumNeg(rr.v), rr.env)
             ELSE Ok(Bool(is_truthy(rr.v)), rr.env)

visit_variable(variable, env0) ==
    LET g == get(env0, variable.name)
    IN  IF g.ok THEN Ok(g.v, env0) ELSE [ok |-> FALSE, err |-> g.err, env |-> env0]

visit_assign(asg, env0, clk) ==
    LET vr == evaluate(asg.value, env0, clk)
    IN  IF ~vr.ok THEN vr
        ELSE LET a == assign(vr.env, asg.name, vr.v)
             IN  IF a.ok THEN Ok(vr.v, a.env)
                 ELSE [ok |-> FALSE, err |-> a.err, env |-> a.env]

\* visit_logical that evaluates both operands before it chooses
visit_logical_eager(logical, env0, clk) ==
    LET lr == evaluate(logical.left, env0, clk)
        k == logical.operator.token_type.k
    IN  IF ~lr.ok THEN lr
        ELSE LET rr == evaluate(logical.right, lr.env, clk)
             IN  IF ~rr.ok THEN rr
                 ELSE IF k = "Or" /\ is_truthy(lr.v) THEN Ok(lr.v, rr.env)
                 ELSE IF k = "And" /\ ~is_truthy(lr.v) THEN Ok(lr.v, rr.env)
                 ELSE rr

visit_logical(logical, env0, clk) ==
    LET lr == evaluate(logical.left, env0, clk)
        k == logical.operator.token_type.k
    IN  IF ~lr.ok THEN lr
        ELSE IF k = "Or" /\ is_truthy(lr.v) THEN lr
        ELSE IF k = "And" /\ ~is_truthy(lr.v) THEN lr
        ELSE evaluate(logical.right, lr.env, clk)

evaluate(expr, env, clk) ==
    CASE expr.e = "Binary" -> visit_binary(expr, env, clk)
      [] expr.e = "Call" -> visit_call(expr, env, clk)
      [] expr.e = "Grouping" -> evaluate(expr.expression, env, clk)
      [] expr.e = "Literal" -> Ok(expr.value, env)
      [] expr.e = "Unary" -> visit_unary(expr, env, clk)
      [] expr.e = "Variable" -> visit_variable(expr, env)
      [] expr.e = "Assign" -> visit_assign(expr, env, clk)
      [] expr.e = "Logical" -> visit_logical(expr, env, clk)

\* the arguments evaluated from the last one to the first
RECURSIVE evaluate_arguments_reversed(_, _, _, _)
evaluate_arguments_reversed(arguments, done, env, clk) ==
    IF arguments = <<>> THEN Ok(done, env)
    ELSE LET r == evaluate(arguments[Len(arguments)], env, clk)
         IN  IF ~r.ok THEN r
             ELSE evaluate_arguments_reversed(
                      SubSeq(arguments, 1, Len(arguments) - 1),
                      <<r.v>> \o done, r.env, clk)

\* the loop over expr.arguments in visit_call
evaluate_arguments(arguments, done, env, clk) ==
    IF arguments = <<>> THEN Ok(done, env)
    ELSE LET r == evaluate(Head(arguments), env, clk)
         IN  IF ~r.ok THEN r
             ELSE evaluate_arguments(Tail(arguments), Append(done, r.v), r.env, clk)

\* Interpreter::new
NewInterpreter == define(NewEnvironment, <<"c", "l", "o", "c", "k">>, Callable("clock"))

\* ---------------------------------------------------------------- parser
\* expressions and statements (src/src/ast.rs)
Binary(left, operator, right) ==
    [e |-> "Binary", left |-> left, operator |-> operator, right |-> right]
Logical(left, operator, right) ==
    [e |-> "Logical", left |-> left, operator |-> operator, right |-> right]
Unary(operator, right) == [e |-> "Unary", operator |-> operator, right |-> right]
CallExpr(callee, paren, arguments) ==
    [e |-> "Call", callee |-> callee, paren |-> paren, arguments |-> arguments]
Grouping(expression) == [e |-> "Grouping", expression |-> expression]
Literal(value) == [e |-> "Literal", value |-> value]
Variable(name) == [e |-> "Variable", name |-> name]
Assign(name, value) == [e |-> "Assign", name |-> name, value |-> value]

ExpressionStmt(expr) == [s |-> "Expression", expr |-> expr]
PrintStmt(expr) == [s |-> "Print", expr |-> expr]
\* an Option is the empty sequence (None) or a sequence of one element (Some)
VarStmt(name, initializer) == [s |-> "Var", name |-> name, initializer |-> initializer]
BlockStmt(stmts) == [s |-> "Block", statements |-> stmts]
IfStmt(condition, then_branch, else_branch) ==
    [s |-> "If", condition |-> condition, then_branch |-> then_branch,
     else_branch |-> else_branch]
WhileStmt(condition, body) == [s |-> "While", condition |-> condition, body |-> body]

\* the parser's state: its cursor, and the diagnostic sink it borrows; synced
\* is history: for every call of synchronize, where the failed declaration
\* started, where the cursor stood when it failed and where it was left
\* besides current: the synchronizations and the iterations of the loops
\* of parse and block so far, and whether previous() was called at cursor 0
NewParser(flag, log) ==
    [current |-> 0, had_error |-> flag, out |-> log, synced |-> <<>>,
     iters |-> <<>>, underflow |-> FALSE]

POk(v, p) == [ok |-> TRUE, v |-> v, p |-> p]
PErr(p) == [ok |-> FALSE, p |-> p]

\* tokens.get(current).unwrap() panics outside the vector: nothing more is
\* parsed then, as at Eof, and the cursor shows where it was read
p_peek(toks, p) ==
    IF p.current < Len(toks) THEN toks[p.current + 1] ELSE Token(TT("Eof"), <<>>, 0)

previous(toks, p) == toks[p.current]

p_is_at_end(toks, p) == p_peek(toks, p).token_type.k = "Eof"

\* advance that moves the cursor at Eof too
p_advance_past_end(toks, p) == [p EXCEPT !.current = @ + 1]

\* advance returns previous(), which is tokens.get(current - 1)
p_advance(toks, p) ==
    IF ~p_is_at_end(toks, p) THEN [p EXCEPT !.current = @ + 1]
    ELSE [p EXCEPT !.underflow = @ \/ p.current = 0]

\* Number(_) matches Number(_) and String(_) matches String(_): kinds only
check(toks, p, kind) ==
    IF p_is_at_end(toks, p) THEN FALSE ELSE p_peek(toks, p).token_type.k = kind

match_token_types(toks, p, kinds) ==
    IF \E k \in kinds : check(toks, p, k)
    THEN [m |-> TRUE, p |-> p_advance(toks, p)]
    ELSE [m |-> FALSE, p |-> p]

error(p, token, message) ==
    PErr(report(p, token.line,
                IF token.token_type.k = "Eof" THEN [at |-> "end"]
                ELSE [at |-> token.lexeme],
                message))

consume(toks, p, kind, message) ==
    IF check(toks, p, kind)
    THEN POk(previous(toks, p_advance(toks, p)), p_advance(toks, p))
    ELSE error(p, p_peek(toks, p), message)

SyncKinds == {"Class", "Fun", "Var", "For", "If", "While", "Print", "Return"}

\* a loop of synchronize that stops after a ';' only
RECURSIVE synchronize_to_semicolon(_, _)
synchronize_to_semicolon(toks, p) ==
    IF p_is_at_end(toks, p) THEN p
    ELSE IF previous(toks, p).token_type.k = "Semicolon" THEN p
    ELSE synchronize_to_semicolon(toks, p_advance(toks, p))

RECURSIVE synchronize_loop(_, _)
synchronize_loop(toks, p) ==
    IF p_is_at_end(toks, p) THEN p
    ELSE IF previous(toks, p).token_type.k = "Semicolon" THEN p
    ELSE IF p_peek(toks, p).token_type.k \in SyncKinds THEN p
    ELSE synchronize_loop(toks, p_advance(toks, p))

synchronize(toks, p) == synchronize_loop(toks, p_advance(toks, p))

\* an iteration of the loop of parse or of block went from cursor from to
\* the cursor of p
Iterated(p, loop, from) ==
    [p EXCEPT !.iters = Append(@, [loop |-> loop, from |-> from, to |-> p.current])]

\* the ? of Rust: a failure is returned at once, a success is passed on
Try(r, K(_)) == IF r.ok THEN K(r) ELSE r

\* let x = ...
With(x, K(_)) == K(x)

RECURSIVE declaration(_, _)
RECURSIVE statement(_, _)
RECURSIVE block_loop(_, _, _)
RECURSIVE assignment(_, _)
RECURSIVE p_or(_, _)
RECURSIVE p_or_loop(_, _, _)
RECURSIVE p_and(_, _)
RECURSIVE p_and_loop(_, _, _)
RECURSIVE equality(_, _)
RECURSIVE equality_loop(_, _, _)
RECURSIVE comparison(_, _)
RECURSIVE comparison_loop(_, _, _)
RECURSIVE term(_, _)
RECURSIVE term_loop(_, _, _)
RECURSIVE factor(_, _)
RECURSIVE factor_loop(_, _, _)
RECURSIVE unary(_, _)
RECURSIVE call_loop(_, _, _)
RECURSIVE arguments_loop(_, _, _)
RECURSIVE primary(_, _)

expression(toks, p) == assignment(toks, p)

assignment(toks, p) ==
    Try(p_or(toks, p),
        LAMBDA l :
            LET m == match_token_types(toks, l.p, {"Equal"})
            IN  IF ~m.m THEN l
                ELSE Try(assignment(toks, m.p),
                         LAMBDA r :
                             IF l.v.e = "Variable"
                             THEN POk(Assign(l.v.name, r.v), r.p)
                             ELSE error(r.p, previous(toks, m.p),
                                        "Invalid assignment target.")))

\* the operands of p_or, one per turn; left is empty before the first operand
\* and holds the expression so far and the operator afterwards
p_or_loop(toks, left, p) ==
    Try(p_and(toks, p),
        LAMBDA r :
            With(IF left = <<>> THEN r.v ELSE Logical(left[1], left[2], r.v),
                 LAMBDA expr :
                     LET m == match_token_types(toks, r.p, {"Or"})
                     IN  IF m.m
                         THEN p_or_loop(toks, <<expr, previous(toks, m.p)>>, m.p)
                         ELSE POk(expr, r.p)))

p_or(toks, p) == p_or_loop(toks, <<>>, p)

\* the operands of p_and, one per turn; left is empty before the first operand
\* and holds the expression so far and the operator afterwards
p_and_loop(toks, left, p) ==
    Try(equality(toks, p),
        LAMBDA r :
            With(IF left = <<>> THEN r.v ELSE Logical(left[1], left[2], r.v),
                 LAMBDA expr :
                     LET m == match_token_types(toks, r.p, {"And"})
                     IN  IF m.m
                         THEN p_and_loop(toks, <<expr, previous(toks, m.p)>>, m.p)
                         ELSE POk(expr, r.p)))

p_and(toks, p) == p_and_loop(toks, <<>>, p)

\* the operands of equality, one per turn; left is empty before the first operand
\* and holds the expression so far and the operator afterwards
equality_loop(toks, left, p) ==
    Try(comparison(toks, p),
        LAMBDA r :
            With(IF left = <<>> THEN r.v ELSE Binary(left[1], left[2], r.v),
                 LAMBDA expr :
                     LET m == match_token_types(toks, r.p, {"BangEqual", "EqualEqual"})
                     IN  IF m.m
                         THEN equality_loop(toks, <<expr, previous(toks, m.p)>>, m.p)
                         ELSE POk(expr, r.p)))

equality(toks, p) == equality_loop(toks, <<>>, p)

\* the operands of comparison, one per turn; left is empty before the first operand
\* and holds the expression so far and the operator afterwards
comparison_loop(toks, left, p) ==
    Try(term(toks, p),
        LAMBDA r :
            With(IF left = <<>> THEN r.v ELSE Binary(left[1], left[2], r.v),
                 LAMBDA expr :
                     LET m == match_token_types(toks, r.p, {"Greater", "GreaterEqual", "Less", "LessEqual"})
                     IN  IF m.m
                         THEN comparison_loop(toks, <<expr, previous(toks, m.p)>>, m.p)
                         ELSE POk(expr, r.p)))

comparison(toks, p) == comparison_loop(toks, <<>>, p)

\* term by recursion on the right operand instead of the loop
RECURSIVE term_right(_, _, _)
term_right(toks, left, p) ==
    Try(factor(toks, p),
        LAMBDA r :
            LET m == match_token_types(toks, r.p, {"Minus", "Plus"})
            IN  IF m.m
                THEN Try(term_right(toks, left, m.p),
                         LAMBDA q : POk(Binary(r.v, previous(toks, m.p), q.v), q.p))
                ELSE r)

\* the operands of term, one per turn; left is empty before the first operand
\* and holds the expression so far and the operator afterwards
term_loop(toks, left, p) ==
    Try(factor(toks, p),
        LAMBDA r :
            With(IF left = <<>> THEN r.v ELSE Binary(left[1], left[2], r.v),
                 LAMBDA expr :
                     LET m == match_token_types(toks, r.p, {"Minus", "Plus"})
                     IN  IF m.m
                         THEN term_loop(toks, <<expr, previous(toks, m.p)>>, m.p)
                         ELSE POk(expr, r.p)))

term(toks, p) == term_loop(toks, <<>>, p)

\* the operands of factor, one per turn; left is empty before the first operand
\* and holds the expression so far and the operator afterwards
factor_loop(toks, left, p) ==
    Try(unary(toks, p),
        LAMBDA r :
            With(IF left = <<>> THEN r.v ELSE Binary(left[1], left[2], r.v),
                 LAMBDA expr :
                     LET m == match_token_types(toks, r.p, {"Slash", "Star"})
                     IN  IF m.m
                         THEN factor_loop(toks, <<expr, previous(toks, m.p)>>, m.p)
                         ELSE POk(expr, r.p)))

factor(toks, p) == factor_loop(toks, <<>>, p)

unary(toks, p) ==
    LET m == match_token_types(toks, p, {"Bang", "Minus"})
    IN  IF m.m
        THEN Try(unary(toks, m.p),
                 LAMBDA r : POk(Unary(previous(toks, m.p), r.v), r.p))
        ELSE Try(primary(toks, p), LAMBDA l : call_loop(toks, l.v, l.p))

MaxArguments == 8

\* the do-while of finish_call: an argument, then a comma or the end
arguments_loop(toks, arguments, p) ==
    Try(expression(toks,
                   IF Len(arguments) >= MaxArguments
                   THEN error(p, p_peek(toks, p), "Cannot have more than 8 arguments.").p
                   ELSE p),
        LAMBDA a :
            LET m == match_token_types(toks, a.p, {"Comma"})
            IN  IF m.m THEN arguments_loop(toks, Append(arguments, a.v), m.p)
                ELSE POk(Append(arguments, a.v), m.p))

finish_call(toks, p, callee) ==
    Try(IF ~check(toks, p, "RightParen") THEN arguments_loop(toks, <<>>, p)
        ELSE POk(<<>>, p),
        LAMBDA args :
            Try(consume(toks, args.p, "RightParen", "Expect ')' after arguments."),
                LAMBDA paren : POk(CallExpr(callee, paren.v, args.v), paren.p)))

call_loop(toks, expr, p) ==
    LET m == match_token_types(toks, p, {"LeftParen"})
    IN  IF ~m.m THEN POk(expr, p)
        ELSE Try(finish_call(toks, m.p, expr), LAMBDA c : call_loop(toks, c.v, c.p))

primary(toks, p) ==
    IF check(toks, p, "False") THEN POk(Literal(Bool(FALSE)), p_advance(toks, p))
    ELSE IF check(toks, p, "True") THEN POk(Literal(Bool(TRUE)), p_advance(toks, p))
    ELSE IF check(toks, p, "Nil") THEN POk(Literal(Nil), p_advance(toks, p))
    ELSE IF check(toks, p, "Number")
         THEN POk(Literal(p_peek(toks, p).token_type.v), p_advance(toks, p))
    ELSE IF check(toks, p, "String")
         THEN POk(Literal(Str(p_peek(toks, p).token_type.s)), p_advance(toks, p))
    ELSE IF check(toks, p, "Identifier")
         THEN POk(Variable(p_peek(toks, p)), p_advance(toks, p))
    ELSE IF check(toks, p, "LeftParen")
         THEN Try(expression(toks, p_advance(toks, p)),
                  LAMBDA r :
                      Try(consume(toks, r.p, "RightParen", "Expect ')' after expression."),
                          LAMBDA c : POk(Grouping(r.v), c.p)))
    ELSE error(p, p_peek(toks, p), "Expect expression")

var_declaration(toks, p) ==
    Try(consume(toks, p, "Identifier", "Expect variable name."),
        LAMBDA name :
            LET m == match_token_types(toks, name.p, {"Equal"})
            IN  Try(IF m.m THEN expression(toks, m.p) ELSE POk(<<>>, m.p),
                    LAMBDA init :
                        Try(consume(toks, init.p, "Semicolon",
                                    "Expect ';' after variable declaration."),
                            LAMBDA semi :
                                POk(VarStmt(name.v, IF m.m THEN <<init.v>> ELSE <<>>),
                                    semi.p))))

expression_statement(toks, p) ==
    Try(expression(toks, p),
        LAMBDA r :
            IF ~p_is_at_end(toks, r.p)
            THEN Try(consume(toks, r.p, "Semicolon", "Expect ';' after expression."),
                     LAMBDA c : POk(ExpressionStmt(r.v), c.p))
            ELSE POk(ExpressionStmt(r.v), r.p))

print_statement(toks, p) ==
    Try(expression(toks, p),
        LAMBDA r :
            Try(consume(toks, r.p, "Semicolon", "Expect ';' after value."),
                LAMBDA c : POk(PrintStmt(r.v), c.p)))

while_statement(toks, p) ==
    Try(consume(toks, p, "LeftParen", "Expect '(' after 'while'."),
        LAMBDA lp :
            Try(expression(toks, lp.p),
                LAMBDA cond :
                    Try(consume(toks, cond.p, "RightParen", "Expect ')' after condition."),
                        LAMBDA rp :
                            Try(statement(toks, rp.p),
                                LAMBDA body : POk(WhileStmt(cond.v, body.v), body.p)))))

if_statement(toks, p) ==
    Try(consume(toks, p, "LeftParen", "Expect '(' after 'if'."),
        LAMBDA lp :
            Try(expression(toks, lp.p),
                LAMBDA cond :
                    Try(consume(toks, cond.p, "RightParen", "Expect ')' after if condition."),
                        LAMBDA rp :
                            Try(statement(toks, rp.p),
                                LAMBDA then_branch :
                                    LET m == match_token_types(toks, then_branch.p, {"Else"})
                                    IN  Try(IF m.m THEN statement(toks, m.p)
                                            ELSE POk(<<>>, m.p),
                                            LAMBDA else_branch :
                                                POk(IfStmt(cond.v, then_branch.v,
                                                           IF m.m THEN <<else_branch.v>>
                                                           ELSE <<>>),
                                                    else_branch.p))))))

\* the initializer of a for statement: None, a declaration or an expression
for_initializer(toks, p) ==
    IF check(toks, p, "Semicolon") THEN POk(<<>>, p_advance(toks, p))
    ELSE IF check(toks, p, "Var")
         THEN Try(var_declaration(toks, p_advance(toks, p)),
                  LAMBDA d : POk(<<d.v>>, d.p))
    ELSE Try(expression_statement(toks, p), LAMBDA e : POk(<<e.v>>, e.p))

\* for_body that puts the increment before the body
for_body_increment_first(toks, p, initializer, condition, increment) ==
    Try(statement(toks, p),
        LAMBDA b :
            With(WhileStmt(condition,
                           IF increment # <<>>
                           THEN BlockStmt(<<ExpressionStmt(increment[1]), b.v>>)
                           ELSE b.v),
                 LAMBDA loop :
                     POk(IF initializer # <<>> THEN BlockStmt(<<initializer[1], loop>>)
                         ELSE loop,
                         b.p)))

\* the body of a for statement and the loop built from it
for_body(toks, p, initializer, condition, increment) ==
    Try(statement(toks, p),
        LAMBDA b :
            With(WhileStmt(condition,
                           IF increment # <<>>
                           THEN BlockStmt(<<b.v, ExpressionStmt(increment[1])>>)
                           ELSE b.v),
                 LAMBDA loop :
                     POk(IF initializer # <<>> THEN BlockStmt(<<initializer[1], loop>>)
                         ELSE loop,
                         b.p)))

for_statement(toks, p) ==
    Try(consume(toks, p, "LeftParen", "Expect '(' after 'for'."),
        LAMBDA lp :
            Try(for_initializer(toks, lp.p),
                LAMBDA init :
                    Try(IF check(toks, init.p, "Semicolon")
                        THEN POk(Literal(Bool(TRUE)), init.p)
                        ELSE expression(toks, init.p),
                        LAMBDA cond :
                            Try(consume(toks, cond.p, "Semicolon",
                                        "Expect ';' after loop condition."),
                                LAMBDA semi :
                                    Try(IF check(toks, semi.p, "RightParen")
                                        THEN POk(<<>>, semi.p)
                                        ELSE Try(expression(toks, semi.p),
                                                 LAMBDA e : POk(<<e.v>>, e.p)),
                                        LAMBDA incr :
                                            Try(consume(toks, incr.p, "RightParen",
                                                        "Expect ')' after for clauses."),
                                                LAMBDA rp :
                                                    for_body(toks, rp.p, init.v, cond.v,
                                                             incr.v)))))))

block_loop(toks, stmts, p) ==
    IF ~check(toks, p, "RightBrace") /\ ~p_is_at_end(toks, p)
    THEN With(declaration(toks, p),
              LAMBDA d : block_loop(toks, IF d.some THEN Append(stmts, d.v) ELSE stmts,
                                    Iterated(d.p, "block", p.current)))
    ELSE POk(stmts, p)

block(toks, p) ==
    Try(block_loop(toks, <<>>, p),
        LAMBDA b :
            Try(consume(toks, b.p, "RightBrace", "Expect '}' after block."),
                LAMBDA c : POk(b.v, c.p)))

statement(toks, p) ==
    IF check(toks, p, "For") THEN for_statement(toks, p_advance(toks, p))
    ELSE IF check(toks, p, "If") THEN if_statement(toks, p_advance(toks, p))
    ELSE IF check(toks, p, "Print") THEN print_statement(toks, p_advance(toks, p))
    ELSE IF check(toks, p, "While") THEN while_statement(toks, p_advance(toks, p))
    ELSE IF check(toks, p, "LeftBrace")
         THEN Try(block(toks, p_advance(toks, p)), LAMBDA b : POk(BlockStmt(b.v), b.p))
    ELSE expression_statement(toks, p)

declaration(toks, p) ==
    With(IF check(toks, p, "Var") THEN var_declaration(toks, p_advance(toks, p))
         ELSE statement(toks, p),
         LAMBDA r :
             IF r.ok THEN [some |-> TRUE, v |-> r.v, p |-> r.p]
             ELSE With(synchronize(toks, r.p),
                       LAMBDA q :
                           [some |-> FALSE,
                            p |-> [q EXCEPT !.synced =
                                       Append(@, [start |-> p.current,
                                                  from |-> r.p.current,
                                                  to |-> q.current])]]))

RECURSIVE parse_loop(_, _, _)
parse_loop(toks, stmts, p) ==
    IF ~p_is_at_end(toks, p)
    THEN With(declaration(toks, p),
              LAMBDA d : parse_loop(toks, IF d.some THEN Append(stmts, d.v) ELSE stmts,
                                    Iterated(d.p, "parse", p.current)))
    ELSE POk(stmts, p)

parse(toks, p) == parse_loop(toks, <<>>, p)

\* scan_tokens from a scanner state on: the loop and the final Eof
RECURSIVE scan_tokens(_, _)
scan_tokens(src, sc) ==
    IF sc.panic THEN sc
    ELSE IF is_at_end(src, sc)
         THEN [sc EXCEPT !.tokens = Append(@, Token(TT("Eof"), <<>>, sc.line))]
    ELSE scan_tokens(src, scan_token(src, [sc EXCEPT !.start = sc.current]))

\* ------------------------------------------------------------ statements
RECURSIVE NatDigits(_)
NatDigits(n) ==
    IF n < 10 THEN <<CHOOSE c \in Digits : DigitValue(c) = n>>
    ELSE Append(NatDigits(n \div 10), CHOOSE c \in Digits : DigitValue(c) = n % 10)

MaxFractionDigits == 16

RECURSIVE FractionDigits(_, _, _)
FractionDigits(r, d, k) ==
    IF r = 0 \/ k = 0 THEN <<>>
    ELSE <<CHOOSE c \in Digits : DigitValue(c) = (10 * r) \div d>>
         \o FractionDigits((10 * r) % d, d, k - 1)

\* f64::to_string
NumberToString(a) ==
    IF a.d = 0
    THEN (IF a.n > 0 THEN <<"i", "n", "f">>
          ELSE IF a.n < 0 THEN <<"-", "i", "n", "f">> ELSE <<"N", "a", "N">>)
    ELSE (IF a.n < 0 THEN <<"-">> ELSE <<>>)
         \o NatDigits(Abs(a.n) \div a.d)
         \o (IF Abs(a.n) % a.d = 0 THEN <<>>
             ELSE <<".">> \o FractionDigits(Abs(a.n) % a.d, a.d, MaxFractionDigits))

\* stringify panics on a Callable
CanStringify(value) == value.t # "Callable"

stringify(value) ==
    CASE value.t = "Nil" -> <<"n", "i", "l">>
      [] value.t = "Number" -> NumberToString(value)
      [] value.t = "String" -> value.s
      [] value.t = "Bool" -> IF value.b THEN <<"t", "r", "u", "e">>
                             ELSE <<"f", "a", "l", "s", "e">>

\* runtime_error that prints and leaves the flag alone
runtime_error_silent(lox, err) ==
    [lox EXCEPT !.out = Append(@, [k |-> "runtime_error", message |-> err.message,
                                  line |-> err.token.line])]

\* Lox::runtime_error on the sink [had_error, had_runtime_error, out]
runtime_error(lox, err) ==
    [lox EXCEPT !.out = Append(@, [k |-> "runtime_error", message |-> err.message,
                                  line |-> err.token.line]),
                !.had_runtime_error = TRUE]

\* the statements still to execute: a frame executes a statement, or pops
\* the scope of the block whose children are the frames before it
ExecFrame(stmt) == [f |-> "exec", stmt |-> stmt]
PopFrame == [f |-> "pop"]

Frames(stmts) == [i \in 1..Len(stmts) |-> ExecFrame(stmts[i])]

PopFrames(k) == Cardinality({i \in 1..Len(k) : k[i].f = "pop"})

\* execute_block returning early on an error, without the pop
unwind_keeping(k, vals) == vals

\* an error leaves every execute_block that is running: each pops its scope
RECURSIVE unwind(_, _)
unwind(k, vals) ==
    IF k = <<>> THEN vals
    ELSE unwind(Tail(k), IF Head(k).f = "pop" THEN pop(vals) ELSE vals)

\* one statement: the frames that replace it, the environment, what it
\* printed, and how it ended ("ok", "err" or "panic")
Step(frames, env, printed) ==
    [end |-> "ok", frames |-> frames, env |-> env, printed |-> printed]

StepErr(r) == [end |-> "err", err |-> r.err, env |-> r.env]

visit_expr(stmt, env, clk) ==
    LET r == evaluate(stmt.expr, env, clk)
    IN  IF ~r.ok THEN StepErr(r) ELSE Step(<<>>, r.env, <<>>)

visit_print(stmt, env, clk) ==
    LET r == evaluate(stmt.expr, env, clk)
    IN  IF ~r.ok THEN StepErr(r)
        ELSE IF ~CanStringify(r.v) THEN [end |-> "panic"]
        ELSE Step(<<>>, r.env, <<[k |-> "print", text |-> stringify(r.v)]>>)

visit_var(stmt, env, clk) ==
    LET r == IF stmt.initializer # <<>> THEN evaluate(stmt.initializer[1], env, clk)
             ELSE Ok(Nil, env)
    IN  IF ~r.ok THEN StepErr(r)
        ELSE Step(<<>>, define(r.env, stmt.name.lexeme, r.v), <<>>)

execute_block(stmts, env) ==
    Step(Frames(stmts) \o <<PopFrame>>, push(env), <<>>)

visit_if(stmt, env, clk) ==
    LET r == evaluate(stmt.condition, env, clk)
    IN  IF ~r.ok THEN StepErr(r)
        ELSE IF is_truthy(r.v) THEN Step(<<ExecFrame(stmt.then_branch)>>, r.env, <<>>)
        ELSE IF stmt.else_branch # <<>>
             THEN Step(<<ExecFrame(stmt.else_branch[1])>>, r.env, <<>>)
        ELSE Step(<<>>, r.env, <<>>)

visit_while(stmt, env, clk) ==
    LET r == evaluate(stmt.condition, env, clk)
    IN  IF ~r.ok THEN StepErr(r)
        ELSE IF ~is_truthy(r.v) THEN Step(<<>>, r.env, <<>>)
        ELSE Step(<<ExecFrame(stmt.body), ExecFrame(stmt)>>, r.env, <<>>)

execute(stmt, env, clk) ==
    CASE stmt.s = "Expression" -> visit_expr(stmt, env, clk)
      [] stmt.s = "Print" -> visit_print(stmt, env, clk)
      [] stmt.s = "Var" -> visit_var(stmt, env, clk)
      [] stmt.s = "Block" -> execute_block(stmt.statements, env)
      [] stmt.s = "If" -> visit_if(stmt, env, clk)
      [] stmt.s = "While" -> visit_while(stmt, env, clk)

\* run without the test of had_error
after_parse_always(flag) == "interpret"

\* Lox::run, after the parser returned: the evaluator runs unless had_error
after_parse(flag) == IF flag THEN "ran" ELSE "interpret"

\* Lox::run_file, after run returned
exit_status(compile_error, run_error) ==
    IF compile_error THEN 65 ELSE IF run_error THEN 70 ELSE 0

\* ---------------------------------------------------------------- driver
Sigma == {"/", "*", "\n", "\"", "a", ";", "@", "{", "}", NonAscii}

Sources == UNION {[1..k -> Sigma] : k \in 0..MaxLen}

\* var a = 1; { var a = 2; print a; } print a;
ProgShadow ==
    <<"v", "a", "r", " ", "a", " ", "=", " ", "1", ";", " ", "{", " ", "v",
      "a", "r", " ", "a", " ", "=", " ", "2", ";", " ", "p", "r", "i", "n",
      "t", " ", "a", ";", " ", "}", " ", "p", "r", "i", "n", "t", " ", "a",
      ";">>

\* var i = 0; while (i < 3) { print i; i = i + 1; }
ProgWhile ==
    <<"v", "a", "r", " ", "i", " ", "=", " ", "0", ";", " ", "w", "h", "i",
      "l", "e", " ", "(", "i", " ", "<", " ", "3", ")", " ", "{", " ", "p",
      "r", "i", "n", "t", " ", "i", ";", " ", "i", " ", "=", " ", "i", " ",
      "+", " ", "1", ";", " ", "}">>

\* print 1; { var b = 2; { b = -"x"; } } print 3;
ProgNestedError ==
    <<"p", "r", "i", "n", "t", " ", "1", ";", " ", "{", " ", "v", "a", "r",
      " ", "b", " ", "=", " ", "2", ";", " ", "{", " ", "b", " ", "=", " ",
      "-", "\"", "x", "\"", ";", " ", "}", " ", "}", " ", "p", "r", "i", "n",
      "t", " ", "3", ";">>

\* var a = 1; { a = 2; var a = 3; a = 4; } print a; b = 1; print a;
ProgAssign ==
    <<"v", "a", "r", " ", "a", " ", "=", " ", "1", ";", " ", "{", " ", "a",
      " ", "=", " ", "2", ";", " ", "v", "a", "r", " ", "a", " ", "=", " ",
      "3", ";", " ", "a", " ", "=", " ", "4", ";", " ", "}", " ", "p", "r",
      "i", "n", "t", " ", "a", ";", " ", "b", " ", "=", " ", "1", ";", " ",
      "p", "r", "i", "n", "t", " ", "a", ";">>

\* { print clock; }
ProgPrintClock ==
    <<"{", " ", "p", "r", "i", "n", "t", " ", "c", "l", "o", "c", "k", ";",
      " ", "}">>

\* for (var i = 0; i < 2; i = i + 1) print i;
ProgFor ==
    <<"f", "o", "r", " ", "(", "v", "a", "r", " ", "i", " ", "=", " ", "0",
      ";", " ", "i", " ", "<", " ", "2", ";", " ", "i", " ", "=", " ", "i",
      " ", "+", " ", "1", ")", " ", "p", "r", "i", "n", "t", " ", "i", ";">>

\* print nil or "d"; print 1 / 0; print clock() > 0;
ProgLogic ==
    <<"p", "r", "i", "n", "t", " ", "n", "i", "l", " ", "o", "r", " ", "\"",
      "d", "\"", ";", " ", "p", "r", "i", "n", "t", " ", "1", " ", "/", " ",
      "0", ";", " ", "p", "r", "i", "n", "t", " ", "c", "l", "o", "c", "k",
      "(", ")", " ", ">", " ", "0", ";">>

\* var a; if (a) print "y"; else { a = "n" + 1; }
ProgIf ==
    <<"v", "a", "r", " ", "a", ";", " ", "i", "f", " ", "(", "a", ")", " ",
      "p", "r", "i", "n", "t", " ", "\"", "y", "\"", ";", " ", "e", "l", "s",
      "e", " ", "{", " ", "a", " ", "=", " ", "\"", "n", "\"", " ", "+", " ",
      "1", ";", " ", "}">>

\* print 1; "x
ProgOpenString ==
    <<"p", "r", "i", "n", "t", " ", "1", ";", " ", "\"", "x">>

\* /**\n/a;
ProgComment ==
    <<"/", "*", "*", "\n", "/", "a", ";">>

\* /* c */ print 1;
ProgComment2 ==
    <<"/", "*", " ", "c", " ", "*", "/", " ", "p", "r", "i", "n", "t", " ",
      "1", ";">>

\* var i = 0; while (true) { { print i; i = i + 1; if (i > 1) j = 0; } }
ProgErrorInLoop ==
    <<"v", "a", "r", " ", "i", " ", "=", " ", "0", ";", " ", "w", "h", "i",
      "l", "e", " ", "(", "t", "r", "u", "e", ")", " ", "{", " ", "{", " ",
      "p", "r", "i", "n", "t", " ", "i", ";", " ", "i", " ", "=", " ", "i",
      " ", "+", " ", "1", ";", " ", "i", "f", " ", "(", "i", " ", ">", " ",
      "1", ")", " ", "j", " ", "=", " ", "0", ";", " ", "}", " ", "}">>

\* print 1; { var a = ; print 2; } print 3;
ProgParseError ==
    <<"p", "r", "i", "n", "t", " ", "1", ";", " ", "{", " ", "v", "a", "r",
      " ", "a", " ", "=", " ", ";", " ", "p", "r", "i", "n", "t", " ", "2",
      ";", " ", "}", " ", "p", "r", "i", "n", "t", " ", "3", ";">>

Programs == {ProgShadow,
             ProgWhile,
             ProgNestedError,
             ProgAssign,
             ProgPrintClock,
             ProgFor,
             ProgLogic,
             ProgIf,
             ProgOpenString,
             ProgComment,
             ProgComment2,
             ProgErrorInLoop,
             ProgParseError}

ClockReadings == {Num(1000, 1), Num(2000, 1)}

\* Lox::new, Interpreter::new and Scanner::new in run_file
Init ==
    /\ stdin = <<>>
    /\ source \in Sources \cup Programs
    /\ tokens = <<>>
    /\ start = 0
    /\ current = 0
    /\ line = 1
    /\ had_error = FALSE
    /\ had_runtime_error = FALSE
    /\ out = <<>>
    /\ statements = <<>>
    /\ values = NewInterpreter
    /\ kont = <<>>
    /\ pc = "scan"
    /\ exit_code = -1
    /\ last = [op |-> "new"]

ScannerState ==
    [tokens |-> tokens, start |-> start, current |-> current, line |-> line,
     had_error |-> had_error, out |-> out, panic |-> FALSE, ch |-> NoChar]

\* a panic ends the process with status 101
Panic ==
    /\ pc' = "panic"
    /\ exit_code' = 101

\* one iteration of the loop of scan_tokens
ScanToken ==
    /\ pc = "scan"
    /\ ~is_at_end(source, ScannerState)
    /\ LET sc == scan_token(source, [ScannerState EXCEPT !.start = current])
       IN  /\ last' = [op |-> "scan_token", start |-> current, line |-> line,
                       ntokens |-> Len(tokens), panic |-> sc.panic]
           /\ IF sc.panic
              THEN /\ Panic
                   /\ UNCHANGED <<tokens, start, current, line, had_error, out>>
              ELSE /\ tokens' = sc.tokens
                   /\ start' = sc.start
                   /\ current' = sc.current
                   /\ line' = sc.line
                   /\ had_error' = sc.had_error
                   /\ out' = sc.out
                   /\ UNCHANGED <<pc, exit_code>>
    /\ UNCHANGED <<stdin, source, had_runtime_error, statements, values, kont>>

\* the end of scan_tokens
ScanEof ==
    /\ pc = "scan"
    /\ is_at_end(source, ScannerState)
    /\ tokens' = Append(tokens, Token(TT("Eof"), <<>>, line))
    /\ pc' = "parse"
    /\ last' = [op |-> "scan_tokens"]
    /\ UNCHANGED <<stdin, source, start, current, line, had_error, had_runtime_error,
                   out, statements, values, kont, exit_code>>

\* Lox::run from Parser::new to the call of interpret
Parse ==
    /\ pc = "parse"
    /\ \E r \in {parse(tokens, NewParser(had_error, out))} :
           /\ last' = [op |-> "parse", synced |-> r.p.synced, iters |-> r.p.iters,
                       at |-> r.p.current, underflow |-> r.p.underflow]
           /\ IF r.p.underflow \/ r.p.current >= Len(tokens)
              THEN /\ Panic
                   /\ UNCHANGED <<statements, had_error, out, kont>>
              ELSE /\ statements' = r.v
                   /\ had_error' = r.p.had_error
                   /\ out' = r.p.out
                   /\ pc' = after_parse(r.p.had_error)
                   /\ kont' = IF after_parse(r.p.had_error) = "interpret"
                              THEN Frames(r.v) ELSE <<>>
                   /\ UNCHANGED exit_code
    /\ UNCHANGED <<stdin, source, tokens, start, current, line, had_runtime_error,
                   values>>

\* the evaluator executes the next statement
Execute ==
    /\ pc = "interpret"
    /\ kont # <<>>
    /\ Head(kont).f = "exec"
    /\ \E clk \in ClockReadings :
         LET r == execute(Head(kont).stmt, values, clk)
         IN  /\ last' = [op |-> "execute", end |-> r.end, depth |-> Len(values),
                         pending |-> Len(kont) - 1]
             /\ CASE r.end = "ok" ->
                    /\ values' = r.env
                    /\ kont' = r.frames \o Tail(kont)
                    /\ out' = out \o r.printed
                    /\ UNCHANGED <<had_runtime_error, pc, exit_code>>
               [] r.end = "err" ->
                    LET lox == runtime_error(
                                 [had_runtime_error |-> had_runtime_error, out |-> out],
                                 r.err)
                    IN  /\ values' = unwind(Tail(kont), r.env)
                        /\ kont' = <<>>
                        /\ out' = lox.out
                        /\ had_runtime_error' = lox.had_runtime_error
                        /\ pc' = "ran"
                        /\ UNCHANGED exit_code
               [] r.end = "panic" ->
                    /\ Panic
                    /\ UNCHANGED <<values, kont, out, had_runtime_error>>
    /\ UNCHANGED <<stdin, source, tokens, start, current, line, had_error, statements>>

\* the end of execute_block: the scope of the block is popped
ExecutePop ==
    /\ pc = "interpret"
    /\ kont # <<>>
    /\ Head(kont).f = "pop"
    /\ values' = pop(values)
    /\ kont' = Tail(kont)
    /\ last' = [op |-> "pop"]
    /\ UNCHANGED <<stdin, source, tokens, start, current, line, had_error,
                   had_runtime_error, out, statements, pc, exit_code>>

\* interpret has executed every statement
InterpretReturn ==
    /\ pc = "interpret"
    /\ kont = <<>>
    /\ pc' = "ran"
    /\ last' = [op |-> "interpret"]
    /\ UNCHANGED <<stdin, source, tokens, start, current, line, had_error,
                   had_runtime_error, out, statements, values, kont, exit_code>>

\* run_file after run returned
RunFileExit ==
    /\ pc = "ran"
    /\ exit_code' = exit_status(had_error, had_runtime_error)
    /\ pc' = "exit"
    /\ last' = [op |-> "run_file"]
    /\ UNCHANGED <<stdin, source, tokens, start, current, line, had_error,
                   had_runtime_error, out, statements, values, kont>>

Next ==
    \/ ScanToken
    \/ ScanEof
    \/ Parse
    \/ Execute
    \/ ExecutePop
    \/ InterpretReturn
    \/ RunFileExit

Spec == Init /\ [][Next]_vars

\* ------------------------------------------- the environment on its own
Names == {<<"x">>, <<"y">>}

Vals == {Num(1, 1), Num(2, 1)}

Name(n) == Token(TT("Identifier"), n, 1)

InitEnv ==
    /\ stdin = <<>>
    /\ source = <<>>
    /\ tokens = <<>>
    /\ start = 0
    /\ current = 0
    /\ line = 1
    /\ had_error = FALSE
    /\ had_runtime_error = FALSE
    /\ out = <<>>
    /\ statements = <<>>
    /\ values = NewInterpreter
    /\ kont = <<>>
    /\ pc = "env"
    /\ exit_code = -1
    /\ last = [op |-> "new"]

EnvFrame == <<stdin, source, tokens, start, current, line, had_error, had_runtime_error,
              out, statements, kont, pc, exit_code>>

\* a block is entered
EnvPush ==
    /\ Len(values) < MaxDepth
    /\ values' = push(values)
    /\ last' = [op |-> "push", before |-> values]
    /\ UNCHANGED EnvFrame

\* a block is left; execute_block pops only what it pushed
EnvPop ==
    /\ Len(values) > 1
    /\ values' = pop(values)
    /\ last' = [op |-> "pop", before |-> values]
    /\ UNCHANGED EnvFrame

EnvDefine ==
    \E n \in Names, v \in Vals :
        /\ values' = define(values, n, v)
        /\ last' = [op |-> "define", name |-> n, value |-> v, before |-> values]
        /\ UNCHANGED EnvFrame

EnvAssign ==
    \E n \in Names, v \in Vals :
        LET r == assign(values, Name(n), v)
        IN  /\ values' = r.env
            /\ last' = [op |-> "assign", name |-> n, value |-> v, before |-> values,
                        ok |-> r.ok,
                        message |-> IF r.ok THEN <<>> ELSE <<r.err.message>>]
            /\ UNCHANGED EnvFrame

EnvGet ==
    \E n \in Names :
        LET r == get(values, Name(n))
        IN  /\ last' = [op |-> "get", name |-> n, before |-> values, ok |-> r.ok,
                        result |-> IF r.ok THEN <<r.v>> ELSE <<>>]
            /\ UNCHANGED values
            /\ UNCHANGED EnvFrame

NextEnv == EnvPush \/ EnvPop \/ EnvDefine \/ EnvAssign \/ EnvGet

SpecEnv == InitEnv /\ [][NextEnv]_vars

\* --------------------------------------------- the evaluator on its own
EvalValues ==
    {Nil, Bool(TRUE), Bool(FALSE), Num(0, 1), Num(1, 1), Str(<<>>), Str(<<"a">>),
     Callable("clock")}

ClockName == Name(<<"c", "l", "o", "c", "k">>)

\* an expression whose value is v: a literal, or the global that holds the
\* callable
Quote(v) == IF v.t = "Callable" THEN Variable(ClockName) ELSE Literal(v)

UnaryKinds == {"Bang", "Minus"}

BinaryKinds ==
    {"Minus", "Slash", "Star", "Plus", "Greater", "GreaterEqual", "Less",
     "LessEqual", "BangEqual", "EqualEqual"}

LogicalKinds == {"Or", "And"}

\* operators stand on line 2, every other token on line 1
Lexeme(k) ==
    CASE k = "Bang" -> <<"!">>
      [] k = "Minus" -> <<"-">>
      [] k = "Slash" -> <<"/">>
      [] k = "Star" -> <<"*">>
      [] k = "Plus" -> <<"+">>
      [] k = "Greater" -> <<">">>
      [] k = "GreaterEqual" -> <<">", "=">>
      [] k = "Less" -> <<"<">>
      [] k = "LessEqual" -> <<"<", "=">>
      [] k = "BangEqual" -> <<"!", "=">>
      [] k = "EqualEqual" -> <<"=", "=">>
      [] k = "Equal" -> <<"=">>
      [] k = "Or" -> <<"o", "r">>
      [] k = "And" -> <<"a", "n", "d">>
      [] k = "LeftParen" -> <<"(">>
      [] k = "RightParen" -> <<")">>
      [] k = "LeftBrace" -> <<"{">>
      [] k = "RightBrace" -> <<"}">>
      [] k = "Semicolon" -> <<";">>
      [] k = "Print" -> <<"p", "r", "i", "n", "t">>
      [] k = "Number" -> <<"1">>
      [] k = "Eof" -> <<>>

\* operators stand on line 2, every other token on line 1
OpToken(k) == Token(TT(k), Lexeme(k), 2)

\* the globals of Interpreter::new, and x, y and z bound to nil
EvalEnv ==
    define(define(define(NewInterpreter, <<"x">>, Nil), <<"y">>, Nil), <<"z">>, Nil)

InitEval ==
    /\ stdin = <<>>
    /\ source = <<>>
    /\ tokens = <<>>
    /\ start = 0
    /\ current = 0
    /\ line = 1
    /\ had_error = FALSE
    /\ had_runtime_error = FALSE
    /\ out = <<>>
    /\ statements = <<>>
    /\ values = EvalEnv
    /\ kont = <<>>
    /\ pc = "eval"
    /\ exit_code = -1
    /\ last = [op |-> "new"]

\* what evaluate returned: a value or an error, and the environment it left
Outcome(r) ==
    [ok |-> r.ok, v |-> IF r.ok THEN <<r.v>> ELSE <<>>,
     err |-> IF r.ok THEN <<>> ELSE <<r.err>>, env |-> r.env]

\* visit_unary on an operand of every kind
EvalUnary ==
    \E k \in UnaryKinds, v \in EvalValues, clk \in ClockReadings :
        \E r \in {evaluate(Unary(OpToken(k), Quote(v)), values, clk)} :
            /\ last' = [op |-> "unary", k |-> k, operands |-> <<v>>,
                        res |-> Outcome(r)]
            /\ UNCHANGED <<values, EnvFrame>>

\* visit_binary on operands of every pair of kinds
EvalBinary ==
    \E k \in BinaryKinds, l \in EvalValues, r \in EvalValues, clk \in ClockReadings :
        \E res \in {evaluate(Binary(Quote(l), OpToken(k), Quote(r)), values, clk)} :
            /\ last' = [op |-> "binary", k |-> k, operands |-> <<l, r>>,
                        res |-> Outcome(res)]
            /\ UNCHANGED <<values, EnvFrame>>

\* visit_logical: the right operand is the assignment x = w, so that its
\* evaluation shows in the environment
EvalLogical ==
    \E k \in LogicalKinds, l \in EvalValues, w \in EvalValues \ {Nil},
       clk \in ClockReadings :
        \E r \in {evaluate(Logical(Quote(l), OpToken(k),
                                   Assign(Name(<<"x">>), Quote(w))),
                           values, clk)} :
            /\ last' = [op |-> "logical", k |-> k, operands |-> <<l, w>>,
                        res |-> Outcome(r)]
            /\ UNCHANGED <<values, EnvFrame>>

MaxArgs == 2

\* the variable in which the expressions of a call leave their marks
Trace == Name(<<"t">>)

\* t = t + ch: evaluating it appends ch to t; its value is the new t
Mark(ch) ==
    Assign(Trace, Binary(Variable(Trace), OpToken("Plus"), Literal(Str(<<ch>>))))

NoSuchVariable == Variable(Name(<<"u">>))

CalleeKinds == {"clock", "string", "unbound"}

\* a callee that marks "c" and is the clock, one that marks "c" and is a
\* string, and one that fails
CalleeExpr(c) ==
    CASE c = "clock" -> Logical(Mark("c"), OpToken("And"), Variable(ClockName))
      [] c = "string" -> Mark("c")
      [] c = "unbound" -> NoSuchVariable

ArgKinds == {"mark", "nil", "unbound"}

Digit(i) == CASE i = 1 -> "1" [] i = 2 -> "2" [] i = 3 -> "3" [] OTHER -> "9"

\* the i-th argument: one that marks its position, a literal, one that fails
ArgExpr(a, i) ==
    CASE a = "mark" -> Mark(Digit(i))
      [] a = "nil" -> Literal(Nil)
      [] a = "unbound" -> NoSuchVariable

ArgLists == UNION {[1..n -> ArgKinds] : n \in 0..MaxArgs}

\* visit_call on callees and argument lists of every kind, t starting empty
EvalCall ==
    \E c \in CalleeKinds, a \in ArgLists, clk \in ClockReadings :
        \E r \in {evaluate(CallExpr(CalleeExpr(c), OpToken("RightParen"),
                                    [i \in 1..Len(a) |-> ArgExpr(a[i], i)]),
                           define(values, <<"t">>, Str(<<>>)), clk)} :
            /\ last' = [op |-> "call", callee |-> c, args |-> a, clk |-> clk,
                        res |-> Outcome(r)]
            /\ UNCHANGED <<values, EnvFrame>>

NextEval == EvalUnary \/ EvalBinary \/ EvalLogical \/ EvalCall

SpecEval == InitEval /\ [][NextEval]_vars

\* ------------------------------------------------ the parser on its own
MaxTokens == 5
MaxOps == 3

\* the token the scanner makes of the lexeme of kind k on line 1
Tok(k) ==
    Token(IF k = "Number" THEN [k |-> "Number", v |-> Num(1, 1)] ELSE TT(k),
          Lexeme(k), 1)

\* the tokens of kinds f[1], f[2], ..., and Eof
Toks(f) == [i \in 1..(Len(f) + 1) |-> IF i <= Len(f) THEN Tok(f[i]) ELSE Tok("Eof")]

RecoveryKinds ==
    {"LeftBrace", "RightBrace", "RightParen", "Print", "Number", "Semicolon"}

\* texts with errors in them: every sequence of up to MaxTokens tokens
RecoveryInputs ==
    UNION {{Toks(f) : f \in [1..k -> RecoveryKinds]} : k \in 0..MaxTokens}

ChainKinds == {"Or", "And", "EqualEqual", "Less", "Minus", "Star", "Equal"}

Operand(i) == Name(<<<<"a", "b", "c", "d", "e", "f">>[i]>>)

\* a op b op c ...: the operands a, b, c, ... joined by the operators f
Chain(f) ==
    [i \in 1..(2 * Len(f) + 2) |->
        IF i = 2 * Len(f) + 2 THEN Tok("Eof")
        ELSE IF i % 2 = 1 THEN Operand((i + 1) \div 2)
        ELSE Tok(f[i \div 2])]

ChainInputs ==
    UNION {{Chain(f) : f \in [1..k -> ChainKinds]} : k \in 0..MaxOps}

\* Lox::run after scan_tokens returned the tokens
InitParse ==
    /\ stdin = <<>>
    /\ source = <<>>
    /\ tokens \in RecoveryInputs \cup ChainInputs
    /\ start = 0
    /\ current = 0
    /\ line = 1
    /\ had_error = FALSE
    /\ had_runtime_error = FALSE
    /\ out = <<>>
    /\ statements = <<>>
    /\ values = NewInterpreter
    /\ kont = <<>>
    /\ pc = "parse"
    /\ exit_code = -1
    /\ last = [op |-> "new"]

SpecParse == InitParse /\ [][Parse]_vars

\* ------------------------------------------------------------ the prompt
MaxEntries == 3

\* lines as read_line returns them, with their newline
\* var a = 1;
EntryVar ==
    <<"v", "a", "r", " ", "a", " ", "=", " ", "1", ";", "\n">>

\* print a;
EntryPrint ==
    <<"p", "r", "i", "n", "t", " ", "a", ";", "\n">>

\* a = a + 1;
EntryAssign ==
    <<"a", " ", "=", " ", "a", " ", "+", " ", "1", ";", "\n">>

\* print ;
EntryCompileError ==
    <<"p", "r", "i", "n", "t", " ", ";", "\n">>

\* { var b; a = 2; c = 0; }
EntryRuntimeError ==
    <<"{", " ", "v", "a", "r", " ", "b", ";", " ", "a", " ", "=", " ", "2",
      ";", " ", "c", " ", "=", " ", "0", ";", " ", "}", "\n">>

\* { var a = 3; }
EntryBlock ==
    <<"{", " ", "v", "a", "r", " ", "a", " ", "=", " ", "3", ";", " ", "}", "\n">>

Entries ==
    {EntryVar, EntryPrint, EntryAssign, EntryCompileError, EntryRuntimeError,
     EntryBlock}

\* Lox::new and the start of run_prompt: one Interpreter for all the lines
InitPrompt ==
    /\ stdin \in UNION {[1..k -> Entries] : k \in 0..MaxEntries}
    /\ source = <<>>
    /\ tokens = <<>>
    /\ start = 0
    /\ current = 0
    /\ line = 1
    /\ had_error = FALSE
    /\ had_runtime_error = FALSE
    /\ out = <<>>
    /\ statements = <<>>
    /\ values = NewInterpreter
    /\ kont = <<>>
    /\ pc = "prompt"
    /\ exit_code = -1
    /\ last = [op |-> "new"]

\* read_line: the next line, or Ok(0) and an empty input at the end of the
\* stream
read_line(lines) ==
    IF lines = <<>> THEN [input |-> <<>>, rest |-> <<>>, eof |-> TRUE]
    ELSE [input |-> Head(lines), rest |-> Tail(lines), eof |-> FALSE]

\* the loop of run_prompt up to Scanner::new in run; the prompt "> " is
\* written too, and left out of out
PromptRead ==
    /\ pc = "prompt"
    /\ \E r \in {read_line(stdin)} :
           /\ stdin' = r.rest
           /\ source' = r.input
           /\ last' = [op |-> "read_line", eof |-> r.eof]
    /\ tokens' = <<>>
    /\ start' = 0
    /\ current' = 0
    /\ line' = 1
    /\ pc' = "scan"
    /\ UNCHANGED <<had_error, had_runtime_error, out, statements, values, kont,
                   exit_code>>

\* run_prompt that leaves had_error as run left it
end_of_entry_keeping(flag) == flag

\* the end of the loop of run_prompt: self.had_error = false
end_of_entry(flag) == FALSE

\* run returned; the loop goes round
PromptLoop ==
    /\ pc = "ran"
    /\ had_error' = end_of_entry(had_error)
    /\ pc' = "prompt"
    /\ last' = [op |-> "run_prompt"]
    /\ UNCHANGED <<stdin, source, tokens, start, current, line, had_runtime_error,
                   out, statements, values, kont, exit_code>>

NextPrompt ==
    \/ PromptRead
    \/ ScanToken
    \/ ScanEof
    \/ Parse
    \/ Execute
    \/ ExecutePop
    \/ InterpretReturn
    \/ PromptLoop

SpecPrompt == InitPrompt /\ [][NextPrompt]_vars

\* the process is never kept from taking its next step: weak fairness on
\* every step of the loop. ScanToken is enabled exactly when ScanTokenEnabled
\* holds and Parse exactly when ParseEnabled holds, and under SpecPrompt a
\* step that changes vars from such a state is that action, so their weak
\* fairness is written with the enabling condition spelled out.
ScanTokenEnabled == pc = "scan" /\ ~is_at_end(source, ScannerState)

ParseEnabled == pc = "parse"

FairSpecPrompt ==
    /\ SpecPrompt
    /\ WF_vars(PromptRead)
    /\ ([]<>~ScanTokenEnabled \/ []<><<ScanTokenEnabled>>_vars)
    /\ WF_vars(ScanEof)
    /\ ([]<>~ParseEnabled \/ []<><<ParseEnabled>>_vars)
    /\ WF_vars(Execute)
    /\ WF_vars(ExecutePop)
    /\ WF_vars(InterpretReturn)
    /\ WF_vars(PromptLoop)

\* ---------------------------------------------------------- for statements
\* the clauses and the body of the for statements that are run
\* var i = 0;
ForDeclaration ==
    <<"v", "a", "r", " ", "i", " ", "=", " ", "0", ";">>

\* var i;
ForDeclarationOnly ==
    <<"v", "a", "r", " ", "i", ";">>

\* i = 0;
ForAssignment ==
    <<"i", " ", "=", " ", "0", ";">>

\* i < 2
ForCondition ==
    <<"i", " ", "<", " ", "2">>

\* i = i + 1
ForIncrement ==
    <<"i", " ", "=", " ", "i", " ", "+", " ", "1">>

\* { print i; i = i + 1; if (i > 2) u; }
ForBody ==
    <<"{", " ", "p", "r", "i", "n", "t", " ", "i", ";", " ", "i", " ", "=",
      " ", "i", " ", "+", " ", "1", ";", " ", "i", "f", " ", "(", "i", " ",
      ">", " ", "2", ")", " ", "u", ";", " ", "}">>

\* print i;
ForAfter ==
    <<"p", "r", "i", "n", "t", " ", "i", ";">>

ForOpen ==
    <<"f", "o", "r", " ", "(">>

ForInits == {"none", "var", "expr"}

\* what stands before the loop: the declaration of i, unless the
\* initializer declares it
ForPrelude(init) ==
    CASE init = "none" -> ForDeclaration \o <<" ">>
      [] init = "var" -> <<>>
      [] init = "expr" -> ForDeclarationOnly \o <<" ">>

\* the initializer clause with its semicolon
ForInitializer(init) ==
    CASE init = "none" -> <<";">>
      [] init = "var" -> ForDeclaration
      [] init = "expr" -> ForAssignment

\* [prelude] for (init [cond]; [incr]) body print i;
ForProgram(init, cond, incr) ==
    ForPrelude(init) \o ForOpen \o ForInitializer(init)
        \o (IF cond THEN <<" ">> \o ForCondition ELSE <<>>) \o <<";">>
        \o (IF incr THEN <<" ">> \o ForIncrement ELSE <<>>) \o <<")", " ">>
        \o ForBody \o <<" ">> \o ForAfter

ForPrograms ==
    {ForProgram(init, cond, incr) :
        init \in ForInits, cond \in BOOLEAN, incr \in BOOLEAN}

\* Lox::new, Interpreter::new and Scanner::new in run_file, on a program
\* with a for statement
InitFor ==
    /\ stdin = <<>>
    /\ source \in ForPrograms
    /\ tokens = <<>>
    /\ start = 0
    /\ current = 0
    /\ line = 1
    /\ had_error = FALSE
    /\ had_runtime_error = FALSE
    /\ out = <<>>
    /\ statements = <<>>
    /\ values = NewInterpreter
    /\ kont = <<>>
    /\ pc = "scan"
    /\ exit_code = -1
    /\ last = [op |-> "new"]

SpecFor == InitFor /\ [][Next]_vars

\* ================================================================ claims
Ascii(src) == \A i \in 1..Len(src) : Width(src[i]) = 1

Newlines(src, from, to) == Cardinality({i \in from..(to - 1) : NthChar(src, i) = "\n"})

\* the 1-origin line of the character at byte offset b
TrueLine(src, b) == 1 + Newlines(src, 0, CharIndex(src, b))

Kinds(log, kind) == {i \in 1..Len(log) : log[i].k = kind}

EofLast(toks) ==
    /\ toks # <<>>
    /\ \A i \in 1..Len(toks) : (toks[i].token_type.k = "Eof") <=> (i = Len(toks))

\* C1 (token totality): scanning never fails, whatever the input, and once
\* scan_tokens has returned the tokens hold exactly one Eof, the last one.
TokenTotality ==
    /\ ~(pc = "panic" /\ last.op = "scan_token")
    /\ pc \in {"parse", "interpret", "ran", "exit"} => EofLast(tokens)

\* C2 (line preservation): the token a scan step emits carries the line on
\* which its first character stands.
LinePreservation ==
    (last.op = "scan_token" /\ ~last.panic /\ Len(tokens) > last.ntokens)
        => tokens[Len(tokens)].line = TrueLine(source, last.start)

\* the scope of b that holds the name and is inside every other that does
NearestHolder(b, name, j) ==
    /\ j \in 1..Len(b)
    /\ name \in DOMAIN b[j]
    /\ \A i \in (j + 1)..Len(b) : name \notin DOMAIN b[i]

Unbound(b, name) == \A i \in 1..Len(b) : name \notin DOMAIN b[i]

\* scope j of the environment is scope j of b but for name, bound to value
OnlyChanged(b, j, name, value) ==
    /\ Len(values) = Len(b)
    /\ \A i \in (1..Len(b)) \ {j} : values[i] = b[i]
    /\ DOMAIN values[j] = DOMAIN b[j] \cup {name}
    /\ values[j][name] = value
    /\ \A m \in DOMAIN b[j] \ {name} : values[j][m] = b[j][m]

\* C3 (scope correctness): define writes the innermost scope and no other;
\* assign writes the nearest scope that holds the name and no other; get
\* returns the binding of the nearest scope that holds the name.
ScopeCorrectness ==
    /\ last.op = "define"
         => OnlyChanged(last.before, Len(last.before), last.name, last.value)
    /\ last.op = "assign"
         => \A j \in 1..Len(last.before) :
                NearestHolder(last.before, last.name, j)
                    => last.ok /\ OnlyChanged(last.before, j, last.name, last.value)
    /\ last.op = "get"
         => \A j \in 1..Len(last.before) :
                NearestHolder(last.before, last.name, j)
                    => last.result = <<last.before[j][last.name]>>

\* an assignment from an inner scope that does not declare the name, which
\* two outer scopes hold with another value
ScopeCorrectnessWitness ==
    /\ last.op = "assign"
    /\ last.ok
    /\ Len(last.before) = 3
    /\ last.name \notin DOMAIN last.before[3]
    /\ last.name \in DOMAIN last.before[2]
    /\ last.name \in DOMAIN last.before[1]
    /\ last.before[2][last.name] # last.value
    /\ last.before[1][last.name] # last.value

\* C4 (scope pairing): the stack of scopes is never empty; while interpret
\* runs its depth is one more than the number of blocks being executed; at
\* the end of every top-level statement and after interpret returned, with
\* or without a runtime error, only the global scope is left.
ScopePairing ==
    /\ pc # "panic" => Len(values) >= 1
    /\ pc = "interpret" => Len(values) = 1 + PopFrames(kont)
    /\ pc \in {"ran", "exit"} => Len(values) = 1

\* a runtime error raised two blocks deep, after which one scope is left
ScopePairingWitness ==
    /\ last.op = "execute"
    /\ last.end = "err"
    /\ last.depth = 3
    /\ pc = "ran"
    /\ Len(values) = 1

\* C5: assigning a name that no scope holds fails with "Undefined variable
\* 'name'." and leaves every scope as it was, so the name is still unbound.
AssignUndefined ==
    (last.op = "assign" /\ Unbound(last.before, last.name))
        => /\ ~last.ok
           /\ last.message = <<[m |-> "Undefined variable", name |-> last.name]>>
           /\ values = last.before
           /\ ~get(values, Name(last.name)).ok

\* a failed assignment from an inner scope, the other name being bound
AssignUndefinedWitness ==
    /\ last.op = "assign"
    /\ ~last.ok
    /\ Len(values) >= 2
    /\ \E n \in Names : \E i \in 1..Len(values) : n \in DOMAIN values[i]

\* C6: the first runtime error ends interpret.  It is reported once, after
\* what the statements before it printed, and sets had_runtime_error; the
\* global bindings made before it stay; from then on nothing is executed:
\* no print, no change of a binding.
InterpretStopsAtFirstErrorStep ==
    /\ had_runtime_error
         => /\ had_runtime_error'
            /\ values' = values
            /\ out' = out
            /\ kont' = <<>>
            /\ pc' \in {"ran", "exit"}
    /\ (~had_runtime_error /\ had_runtime_error')
         => /\ last'.op = "execute"
            /\ Len(out') = Len(out) + 1
            /\ SubSeq(out', 1, Len(out)) = out
            /\ out'[Len(out')].k = "runtime_error"
            /\ DOMAIN values[1] \subseteq DOMAIN values'[1]
            /\ kont' = <<>>
            /\ pc' = "ran"
    /\ Cardinality(Kinds(out', "runtime_error")) = IF had_runtime_error' THEN 1 ELSE 0

InterpretStopsAtFirstError == [][InterpretStopsAtFirstErrorStep]_vars

\* a runtime error after a statement that printed, with statements left
InterpretStopsAtFirstErrorWitness ==
    /\ last.op = "execute"
    /\ last.end = "err"
    /\ last.pending > 0
    /\ had_runtime_error
    /\ Kinds(out, "print") # {}

\* C7: once a scan or parse error has set had_error, the evaluator is not
\* invoked: no statement is executed, the program prints nothing, no binding
\* changes and had_runtime_error stays false.
CompileErrorsGateEvaluation ==
    had_error
        => /\ pc # "interpret"
           /\ kont = <<>>
           /\ ~had_runtime_error
           /\ values = NewInterpreter
           /\ Kinds(out, "print") = {}
           /\ Kinds(out, "runtime_error") = {}

\* run returned with had_error set and statements it did not execute
CompileErrorsGateEvaluationWitness ==
    /\ had_error
    /\ pc = "ran"
    /\ statements # <<>>

CompileErrorOccurred == Kinds(out, "report") # {} \/ Kinds(out, "println") # {}

RuntimeErrorOccurred == Kinds(out, "runtime_error") # {}

\* C8 (exit codes): when run_file is through, the status is 65 if a compile
\* error occurred (an unterminated string is one), 70 if none did and a
\* runtime error occurred, and 0 only if neither did.
ExitCodes ==
    pc = "exit"
        => /\ CompileErrorOccurred => exit_code = 65
           /\ (~CompileErrorOccurred /\ RuntimeErrorOccurred) => exit_code = 70
           /\ exit_code = 0 => (~CompileErrorOccurred /\ ~RuntimeErrorOccurred)

\* the scan step that starts at byte offset b starts a string that no
\* quote closes
OpensUnterminatedString(src, b) ==
    /\ Ascii(src)
    /\ NthChar(src, b) = "\""
    /\ \A j \in (b + 1)..(Len(src) - 1) : NthChar(src, j) # "\""

\* C9: an unterminated string sets had_error through the diagnostic sink,
\* and no token is emitted for it.
UnterminatedStringReported ==
    (last.op = "scan_token" /\ OpensUnterminatedString(source, last.start))
        => /\ ~last.panic
           /\ had_error
           /\ Kinds(out, "report") # {}
           /\ Len(tokens) = last.ntokens

\* where the block comment that starts at b ends: after the first "*/" at
\* or after b + 2, or at the end of the input
CommentEnd(src, b) ==
    LET C == {j \in (b + 2)..(Len(src) - 2) :
                 NthChar(src, j) = "*" /\ NthChar(src, j + 1) = "/"}
    IN  IF C = {} THEN Len(src)
        ELSE (CHOOSE j \in C : \A k \in C : j <= k) + 2

\* C10 (block comments): a scan step that starts at "/*" does not fail,
\* stops right after the next "*/" (at the end of the input if there is
\* none), counts the newlines it passes and emits no token.
BlockComments ==
    (/\ last.op = "scan_token"
     /\ Ascii(source)
     /\ NthChar(source, last.start) = "/"
     /\ NthChar(source, last.start + 1) = "*")
        => /\ ~last.panic
           /\ current = CommentEnd(source, last.start)
           /\ line = last.line + Newlines(source, last.start, CommentEnd(source, last.start))
           /\ Len(tokens) = last.ntokens

\* only nil and false are falsy
Falsy(v) == v.t = "Nil" \/ (v.t = "Bool" /\ ~v.b)

\* C11 (unary '!'): !x evaluates to the Bool that is true exactly when x is
\* falsy, for a value x of every kind.
UnaryBang ==
    (last.op = "unary" /\ last.k = "Bang")
        => /\ last.res.ok
           /\ last.res.v = <<Bool(Falsy(last.operands[1]))>>
           /\ last.res.env = values

\* C12 (short-circuit): `l or b` with l truthy and `l and b` with l falsy
\* evaluate to l and leave b unevaluated, so the assignment that b is does
\* not happen; in the other cases the result is the value of b as it is,
\* and the assignment has happened.
ShortCircuit ==
    last.op = "logical"
        => /\ last.res.ok
           /\ IF \/ last.k = "Or" /\ ~Falsy(last.operands[1])
                 \/ last.k = "And" /\ Falsy(last.operands[1])
              THEN /\ last.res.v = <<last.operands[1]>>
                   /\ last.res.env = values
              ELSE /\ last.res.v = <<last.operands[2]>>
                   /\ last.res.env = define(values, <<"x">>, last.operands[2])

\* `0 or (x = "a")`: 0 is truthy, the result is 0 and x is still nil
ShortCircuitWitness ==
    /\ last.op = "logical"
    /\ last.k = "Or"
    /\ last.operands = <<Num(0, 1), Str(<<"a">>)>>
    /\ last.res.v = <<Num(0, 1)>>
    /\ last.res.env[1][<<"x">>] = Nil

\* where synchronize stops when the parser failed with its cursor at e: it
\* advances one token, then skips until the previous token is ';' or the
\* current one is the end or class, fun, var, for, if, while, print, return
SyncPoint(toks, e) ==
    LET n == Len(toks) - 1
        first == IF e + 1 <= n THEN e + 1 ELSE n
    IN  CHOOSE s \in first..n :
            /\ \/ s = n
               \/ toks[s].token_type.k = "Semicolon"
               \/ toks[s + 1].token_type.k \in
                      {"Class", "Fun", "Var", "For", "If", "While", "Print", "Return"}
            /\ \A u \in first..(s - 1) :
                   /\ toks[u].token_type.k # "Semicolon"
                   /\ toks[u + 1].token_type.k \notin
                          {"Class", "Fun", "Var", "For", "If", "While", "Print",
                           "Return"}

\* the tokens before position a, and those from position a on, as programs
Before(toks, a) == Append(SubSeq(toks, 1, a), toks[Len(toks)])

From(toks, a) == SubSeq(toks, a + 1, Len(toks))

\* the statements of a text without a parse error; <<>> is no such list
Parsed(toks) ==
    LET r == parse(toks, NewParser(FALSE, <<>>))
    IN  IF r.p.had_error THEN <<>> ELSE <<r.v>>

IsPrefix(a, b) == Len(a) <= Len(b) /\ SubSeq(b, 1, Len(a)) = a

IsSuffix(a, b) == Len(a) <= Len(b) /\ SubSeq(b, Len(b) - Len(a) + 1, Len(b)) = a

\* the declaration that failed is all that is lost: the statements before
\* it, if they are correct, begin the list, and those from the
\* synchronization point on, if they are correct, end it
Isolated(g) ==
    /\ g.to = SyncPoint(tokens, g.from)
    /\ Parsed(Before(tokens, g.start)) # <<>>
         => IsPrefix(Parsed(Before(tokens, g.start))[1], statements)
    /\ Parsed(From(tokens, g.to)) # <<>>
         => IsSuffix(Parsed(From(tokens, g.to))[1], statements)

\* the positions at which the loop of parse calls declaration
RECURSIVE TopStarts(_, _)
TopStarts(toks, p) ==
    IF p_is_at_end(toks, p) THEN {}
    ELSE {p.current} \cup TopStarts(toks, declaration(toks, p).p)

\* C13 (error isolation), as claimed: whenever a declaration fails, at the
\* top level or inside a block, the parser synchronizes as described and
\* the correct declarations from there on are in the list parse returns.
ErrorIsolation ==
    last.op = "parse"
        => \A i \in 1..Len(last.synced) : Isolated(last.synced[i])

\* C13, amended: synchronize stops as described after every failure; when
\* the declaration that failed is one of the program's own, not one inside
\* a block, the correct declarations before it and from the
\* synchronization point on are in the list parse returns.  (Declarations
\* parsed inside a block are returned with the block only.)
ErrorIsolationTopLevel ==
    last.op = "parse"
        => \A i \in 1..Len(last.synced) :
               /\ last.synced[i].to = SyncPoint(tokens, last.synced[i].from)
               /\ last.synced[i].start \in TopStarts(tokens, NewParser(FALSE, <<>>))
                    => Isolated(last.synced[i])

\* a failed declaration between two correct ones, both returned
ErrorIsolationWitness ==
    /\ last.op = "parse"
    /\ Len(last.synced) = 1
    /\ last.synced[1].start > 0
    /\ last.synced[1].to < Len(tokens) - 1
    /\ Parsed(From(tokens, last.synced[1].to)) # <<>>
    /\ Len(statements) = 2

\* C14 (the prompt ends at the end of input): once the input stream is at
\* its end and the prompt is about to read, the process eventually stops.
PromptExitsOnEof ==
    (pc = "prompt" /\ stdin = <<>>) ~> (pc \in {"exit", "panic"})

\* the names bound in the global scope
Globals(vals) == DOMAIN vals[1]

\* C15 (state across the entries of the prompt): the environment changes
\* only while an entry is interpreted, never between entries or when an
\* entry fails to compile; interpreting, also when it ends in a runtime
\* error, removes no global binding and leaves only the global scope
\* behind; had_error is false whenever the prompt is about to read; and
\* an entry that scans and parses without a report is interpreted.
ReplStateStep ==
    /\ pc # "interpret" => values' = values
    /\ pc = "interpret" => Globals(values) \subseteq Globals(values')
    /\ pc' = "ran" => Len(values') = 1
    /\ pc' = "prompt" => ~had_error'
    /\ (pc = "parse" /\ ~had_error /\ out' = out)
         => (pc' = "interpret" /\ kont' = Frames(statements'))

ReplState == [][ReplStateStep]_vars

\* the entries var a = 1; then print ; then print a; have all run: a
\* compile error was reported and, after it, the value of a was printed
ReplStateWitness ==
    /\ pc = "prompt"
    /\ stdin = <<>>
    /\ \E i, j \in 1..Len(out) :
           /\ i < j
           /\ out[i].k = "report"
           /\ out[j].k = "print"
           /\ out[j].text = <<"1">>

\* C16 (binary +): two strings give the left string followed by the right
\* one, two numbers give their sum, and every other pair of operands fails
\* with "Operands must be two numbers or two strings." at the + token.
BinaryPlus ==
    (last.op = "binary" /\ last.k = "Plus")
        => LET l == last.operands[1]
               r == last.operands[2]
           IN  CASE l.t = "String" /\ r.t = "String" ->
                        /\ last.res.ok
                        /\ last.res.v[1].t = "String"
                        /\ last.res.v[1].s = l.s \o r.s
                 [] l.t = "Number" /\ r.t = "Number" ->
                        /\ last.res.ok
                        /\ last.res.v[1].t = "Number"
                        /\ last.res.v[1] = NumAdd(l, r)
                 [] OTHER ->
                        /\ ~last.res.ok
                        /\ last.res.err[1].message.m
                             = "Operands must be two numbers or two strings."
                        /\ last.res.err[1].token = OpToken("Plus")

\* the binary operators that take numbers only
NumericKinds ==
    {"Minus", "Slash", "Star", "Greater", "GreaterEqual", "Less", "LessEqual"}

\* C17 (operands that must be numbers): unary - on an operand that is not a
\* number fails with "Operand must be a number."; binary - * / > >= < <=
\* with an operand that is not a number fail with "Operands must be
\* numbers."; either error carries the operator's token and so its line.
NumericOperandErrors ==
    /\ (last.op = "unary" /\ last.k = "Minus" /\ last.operands[1].t # "Number")
         => /\ ~last.res.ok
            /\ last.res.err[1].message.m = "Operand must be a number."
            /\ last.res.err[1].token = OpToken("Minus")
    /\ (/\ last.op = "binary"
        /\ last.k \in NumericKinds
        /\ \E i \in 1..2 : last.operands[i].t # "Number")
         => /\ ~last.res.ok
            /\ last.res.err[1].message.m = "Operands must be numbers."
            /\ last.res.err[1].token = OpToken(last.k)

\* the positions of the arguments that fail
Failing(a) == {i \in 1..Len(a) : a[i] = "unbound"}

\* the arguments evaluated: all of them, or those up to the first that fails
Evaluated(a) ==
    IF Failing(a) = {} THEN Len(a)
    ELSE CHOOSE i \in Failing(a) : \A j \in Failing(a) : i <= j

RECURSIVE Marks(_, _)
\* the marks of the first n arguments, in the order of the list
Marks(a, n) ==
    IF n = 0 THEN <<>>
    ELSE Marks(a, n - 1) \o (IF a[n] = "mark" THEN <<Digit(n)>> ELSE <<>>)

\* what the call left in t
Marked == last.res.env[1][<<"t">>].s

\* C18 (evaluation of a call): the callee is evaluated first and the
\* arguments after it from left to right, an expression that fails ending
\* the evaluation; a callee that is not callable fails the call; a number
\* of arguments other than the arity fails it with "Expected N arguments
\* but got M." and no value of the callable; otherwise the result is the
\* value of one invocation of the callable.
CallEvaluation ==
    last.op = "call"
        => LET a == last.args
           IN  /\ Marked = IF last.callee = "unbound" THEN <<>>
                           ELSE <<"c">> \o Marks(a, Evaluated(a))
               /\ CASE last.callee = "unbound" \/ Failing(a) # {} ->
                          /\ ~last.res.ok
                          /\ last.res.err[1].message.m = "Undefined variable"
                 [] last.callee = "string" ->
                          /\ ~last.res.ok
                          /\ last.res.err[1].message.m # "Undefined variable"
                 [] Len(a) # 0 ->
                          /\ ~last.res.ok
                          /\ last.res.err[1].message
                               = [m |-> "Expected {} arguments but got {}.",
                                  arity |-> 0, got |-> Len(a)]
                 [] OTHER ->
                          /\ last.res.ok
                          /\ last.res.v[1] = last.clk

\* a call whose callee and two arguments all left their mark, in order
CallEvaluationWitness ==
    /\ last.op = "call"
    /\ last.callee = "clock"
    /\ last.args = <<"mark", "mark">>
    /\ Marked = <<"c", "1", "2">>
    /\ ~last.res.ok

\* the statement about to be executed is a print statement
AtPrint ==
    /\ pc = "interpret"
    /\ kont # <<>>
    /\ Head(kont).f = "exec"
    /\ Head(kont).stmt.s = "Print"

\* C19 (print accepts every value): executing a print statement whose
\* expression has a value, of whatever kind, writes exactly one line.
PrintStep ==
    AtPrint
        => \/ last'.end = "err"
           \/ /\ last'.end = "ok"
              /\ Len(out') = Len(out) + 1
              /\ out'[Len(out')].k = "print"

PrintSucceeds == [][PrintStep]_vars

\* the precedence levels, loosest first
Level(k) ==
    CASE k = "Equal" -> 0
      [] k = "Or" -> 1
      [] k = "And" -> 2
      [] k = "EqualEqual" -> 3
      [] k = "Less" -> 4
      [] k = "Minus" -> 5
      [] k = "Star" -> 6

\* an operand is tighter than every operator
Primary == Level("Star") + 1

\* the level of the operator at the root of an expression
RootLevel(e) ==
    CASE e.e = "Assign" -> Level("Equal")
      [] e.e \in {"Binary", "Logical"} -> Level(e.operator.token_type.k)
      [] OTHER -> Primary

RECURSIVE Flatten(_)
\* the tokens of an expression, from left to right
Flatten(e) ==
    CASE e.e = "Assign" -> <<e.name, Tok("Equal")>> \o Flatten(e.value)
      [] e.e \in {"Binary", "Logical"} ->
             Flatten(e.left) \o <<e.operator>> \o Flatten(e.right)
      [] e.e = "Variable" -> <<e.name>>

RECURSIVE Climbs(_)
\* under a binary operator the left operand is of the same level or a
\* tighter one and the right operand of a tighter one; the value of an
\* assignment is any expression, another assignment included
Climbs(e) ==
    CASE e.e = "Assign" -> Climbs(e.value)
      [] e.e \in {"Binary", "Logical"} ->
             /\ RootLevel(e.left) >= RootLevel(e)
             /\ RootLevel(e.right) > RootLevel(e)
             /\ Climbs(e.left)
             /\ Climbs(e.right)
      [] e.e = "Variable" -> TRUE

\* parse returned, without a report, the one expression of a chain
ChainParsed ==
    /\ last.op = "parse"
    /\ ~had_error
    /\ tokens[1].token_type.k = "Identifier"

\* C20 (associativity and precedence): the expression parsed from a chain
\* a op b op c ... has the tokens of the chain in their order, every
\* binary operator has on its left an operand of its own level or a
\* tighter one and on its right an operand of a tighter level (chains of
\* one level nest to the left, tighter operators bind first), and the
\* value of an assignment may itself be an assignment (it nests to the
\* right): a - b - c is Binary(Binary(a, -, b), -, c) and a = b = c is
\* Assign(a, Assign(b, c)).
Associativity ==
    ChainParsed
        => /\ Len(statements) = 1
           /\ statements[1].s = "Expression"
           /\ Flatten(statements[1].expr) = SubSeq(tokens, 1, Len(tokens) - 1)
           /\ Climbs(statements[1].expr)
           /\ tokens = Chain(<<"Minus", "Minus">>)
                => statements[1].expr
                     = Binary(Binary(Variable(Operand(1)), Tok("Minus"),
                                     Variable(Operand(2))),
                              Tok("Minus"), Variable(Operand(3)))
           /\ tokens = Chain(<<"Equal", "Equal">>)
                => statements[1].expr
                     = Assign(Operand(1),
                              Assign(Operand(2), Variable(Operand(3))))

\* a = b - c - d parsed as Assign(a, Binary(Binary(b, -, c), -, d))
AssociativityWitness ==
    /\ ChainParsed
    /\ tokens = Chain(<<"Equal", "Minus", "Minus">>)
    /\ statements[1].expr.e = "Assign"
    /\ statements[1].expr.value.e = "Binary"
    /\ statements[1].expr.value.left.e = "Binary"
    /\ statements[1].expr.value.right.e = "Variable"

\* the reports of an invalid assignment target in the output
TargetReports ==
    {i \in 1..Len(out) :
        out[i].k = "report" /\ out[i].message = "Invalid assignment target."}

\* parse returned from a chain in which it met an invalid assignment target
InvalidTargetParsed ==
    /\ last.op = "parse"
    /\ tokens[1].token_type.k = "Identifier"
    /\ TargetReports # {}

\* C21 (invalid assignment target): the report stands at the = token, and
\* the statement is kept: no synchronization takes place and the
\* expression statement is in the list parse returns.
InvalidAssignmentTarget ==
    InvalidTargetParsed
        => /\ \A i \in TargetReports :
                 /\ out[i].location = [at |-> Lexeme("Equal")]
                 /\ out[i].line = Tok("Equal").line
           /\ last.synced = <<>>
           /\ Len(statements) = 1
           /\ statements[1].s = "Expression"

\* the statements the parser makes of a text
StmtsOf(text) ==
    parse(scan_tokens(text, NewScanner(text)).tokens, NewParser(FALSE, <<>>)).v

\* the expression the parser makes of a text
ExprOf(text) == StmtsOf(text \o <<";">>)[1].expr

\* Block(init, While(cond, Block(body, Expression(increment)))): the outer
\* block with an initializer only, the inner one with an increment only,
\* true for a missing condition
Desugared(init, cond, incr) ==
    LET body == StmtsOf(ForBody)[1]
        loop == WhileStmt(IF cond THEN ExprOf(ForCondition) ELSE Literal(Bool(TRUE)),
                          IF incr
                          THEN BlockStmt(<<body, ExpressionStmt(ExprOf(ForIncrement))>>)
                          ELSE body)
    IN  IF init = "none" THEN loop
        ELSE BlockStmt(<<StmtsOf(ForInitializer(init))[1], loop>>)

RECURSIVE ForRun(_, _, _)
\* the loop run directly from i on: the values the body prints, whether the
\* body failed, and the i it leaves.  The body prints i, adds one to it and
\* fails when i is then above 2; the increment follows the body.
ForRun(i, cond, incr) ==
    IF cond /\ ~(i < 2) THEN [prints |-> <<>>, failed |-> FALSE, i |-> i]
    ELSE IF i + 1 > 2 THEN [prints |-> <<i>>, failed |-> TRUE, i |-> i + 1]
    ELSE LET r == ForRun(IF incr THEN i + 2 ELSE i + 1, cond, incr)
         IN  [r EXCEPT !.prints = <<i>> \o @]

PrintOf(n) == [k |-> "print", text |-> NumberToString(Num(n, 1))]

\* the output of the program: what the loop prints, then the failure of
\* the body, or else what print i; after the loop does: a failure when the
\* initializer declared i, the value of i otherwise
ForOutput(init, cond, incr) ==
    LET r == ForRun(0, cond, incr)
    IN  [prints |-> [n \in 1..Len(r.prints) |-> PrintOf(r.prints[n])]
                      \o (IF ~r.failed /\ init # "var" THEN <<PrintOf(r.i)>> ELSE <<>>),
         undefined |-> IF r.failed THEN <<"u">>
                       ELSE IF init = "var" THEN <<"i">> ELSE <<>>]

\* what the program printed and the name its runtime error reported
Printed == SelectSeq(out, LAMBDA o : o.k = "print")

Failures == SelectSeq(out, LAMBDA o : o.k = "runtime_error")

\* C22 (for statements): the parser turns for (init; cond; incr) body into
\* Block(init, While(cond, Block(body, Expression(incr)))), each block
\* only with its clause and true for a missing condition; run, the
\* program prints what the loop run directly prints, with the increment
\* after the body on every iteration, and an i declared by the
\* initializer is not bound after the loop.
ForDesugaring ==
    \A init \in ForInits, cond \in BOOLEAN, incr \in BOOLEAN :
        source = ForProgram(init, cond, incr)
            => /\ pc \in {"interpret", "ran", "exit"}
                    => statements = StmtsOf(ForPrelude(init))
                                      \o <<Desugared(init, cond, incr)>>
                                      \o StmtsOf(ForAfter)
               /\ pc = "exit"
                    => /\ Printed = ForOutput(init, cond, incr).prints
                       /\ Len(Failures) = 1
                            => Failures[1].message
                                 = [m |-> "Undefined variable",
                                    name |-> ForOutput(init, cond, incr).undefined]
                       /\ Len(Failures)
                            = Len(ForOutput(init, cond, incr).undefined)
                       /\ init = "var" => <<"i">> \notin Globals(values)

\* for (var i = 0; i < 2; i = i + 1) body print i; has run: the body
\* printed 0 once, and i is unbound after the loop
ForDesugaringWitness ==
    /\ pc = "exit"
    /\ source = ForProgram("var", TRUE, TRUE)
    /\ statements[1].s = "Block"
    /\ statements[1].statements[2].s = "While"
    /\ statements[1].statements[2].body.s = "Block"
    /\ Printed = <<PrintOf(0)>>
    /\ Len(Failures) = 1

\* the cursor at which parse ends: that of the Eof token
EofAt == Len(tokens) - 1

\* C23 (the parser makes progress): parse returns with the cursor on the
\* Eof token, having read nothing outside the vector: no previous() at
\* cursor 0, no cursor past Eof; and every iteration of the loop of parse
\* and of the loop of block leaves the cursor further on than it found
\* it, or on Eof.
ParserProgress ==
    last.op = "parse"
        => /\ ~last.underflow
           /\ last.at = EofAt
           /\ pc # "panic"
           /\ \A i \in 1..Len(last.iters) :
                 /\ last.iters[i].from <= last.iters[i].to
                 /\ last.iters[i].to <= EofAt
                 /\ last.iters[i].to > last.iters[i].from
                      \/ last.iters[i].to = EofAt

\* a declaration failed and was left through synchronize, an iteration of
\* the loop of block consumed tokens, and an iteration of the loop of
\* parse ended on Eof (as for { print)
ParserProgressWitness ==
    /\ last.op = "parse"
    /\ Len(last.synced) > 0
    /\ \E i \in 1..Len(last.iters) :
          /\ last.iters[i].loop = "block"
          /\ last.iters[i].to > last.iters[i].from
    /\ \E i \in 1..Len(last.iters) :
          /\ last.iters[i].loop = "parse"
          /\ last.iters[i].to = EofAt
====
